---- MODULE Spec2Model ----
(***************************************************************************)
(* ModelCharacter (frontend/particle/js/modelCharacter.js): the per-model  *)
(* asset cache with its in-flight loads, and the per-frame retargeting of  *)
(* pose landmarks onto the bones of the active model.                      *)
(*                                                                         *)
(* Execution model: one JavaScript event loop.  loadModel, setVisible,     *)
(* update and the loader's onLoad/onError callbacks are tasks; a task runs *)
(* only when the microtask queue mq is empty.  The continuations of the    *)
(* async functions (after an await) are microtasks, run in FIFO order.     *)
(*                                                                         *)
(* Strings that the code inspects (bone names) are tuples of one-letter    *)
(* strings.  Orientations are modelled in a one-axis rotation group: an    *)
(* orientation is an angle (an integer number of angle units), composing   *)
(* two orientations adds the angles and slerp is linear in the angle.      *)
(***************************************************************************)
EXTENDS Integers, Sequences, FiniteSets, TLC

VARIABLES
    this,    \* the ModelCharacter object and the THREE objects it owns
    mq,      \* the microtask queue: continuations ready to run, in FIFO order
    loads,   \* loader.load invocations, in call order, with their outcome
    calls,   \* loadModel invocations, in call order, with their outcome
    updates, \* update invocations, in call order, with their outcome
    driven,  \* a SkeletonDrivenCharacter object (skeletonDriver.js) mapping scene
    gltfScene, \* the scene object a single hierarchy traversal walks
    cursor   \* the number of objects of gltfScene the traversal has visited

vars == <<this, mq, loads, calls, updates, driven, gltfScene, cursor>>

\* ---------------------------------------------------------------- bounds
MaxCalls == 4
MaxFrameCalls == 2
MaxFrames == 2
MaxMapBones == 3
MaxYawFrames == 12
MaxBuilds == 2

\* ---------------------------------------------------------------- numbers
\* Numbers.  The retargeting is modelled on the frames whose landmarks are
\* collinear along x (equal y, z = 0): every direction between two landmarks
\* is then +x, -x or zero, every rotation solved for a bone is about one axis,
\* so an orientation is an angle, composing orientations adds angles, and a
\* slerp is linear in the angle along the shorter arc.  All quantities are
\* integers in units that keep every division by 4 of MaxFrames frames exact:
\* a landmark x is in units of 1/LM_ONE, an angle in units of PI/(40 * Tick),
\* the group position in units of 1/(8 * LM_ONE).
\* 1 / this.smoothing, for this.smoothing = 0.25
SmoothingInverse == 4
Tick == SmoothingInverse ^ MaxFrames
LM_ONE == 20 * Tick
PI == 40 * Tick
NaN == -1073741824
Absent == -1073741825
\* The pose estimator delivers 33 landmarks per frame.
LandmarkCount == 33

\* ----------------------------------------------------------- small helpers
NULL == "null"
EmptyMap == [k \in {} |-> TRUE]
Has(f, k) == k \in DOMAIN f
Put(f, k, v) == [x \in (DOMAIN f) \cup {k} |-> IF x = k THEN v ELSE f[x]]
Delete(f, k) == [x \in (DOMAIN f) \ {k} |-> f[x]]
Values(f) == {f[k] : k \in DOMAIN f}

\* ------------------------------------------------------------ static data
AVAILABLE_MODELS == <<
    [id |-> "angel_devil", path |-> "/models/angel_devil/scene.gltf"],
    [id |-> "christmas_elf", path |-> "/models/christmas_elf/scene.gltf"],
    [id |-> "ginger_cookies", path |-> "/models/christmas_ginger_bread_cookies/scene.gltf"],
    [id |-> "gingerbread_joy", path |-> "/models/gingerbread_joy/scene.gltf"],
    [id |-> "gingerbread_joy_alt", path |-> "/models/gingerbread_joy (1)/scene.gltf"],
    [id |-> "gingerbread_man", path |-> "/models/gingerbread_man/scene.gltf"],
    [id |-> "gingerbread_man_alt", path |-> "/models/gingerbread_man (1)/scene.gltf"],
    [id |-> "gingy", path |-> "/models/gingy_the_gingebread_man/scene.gltf"],
    [id |-> "shrek_gingy", path |-> "/models/shrek_2_gingerbread_man/scene.gltf"],
    [id |-> "varia_suit", path |-> "/models/varia_suit/scene.gltf"] >>

KnownIds == {AVAILABLE_MODELS[i].id : i \in 1..Len(AVAILABLE_MODELS)}

\* AVAILABLE_MODELS.find(m => m.id === modelId): the index of the first
\* entry with that id, 0 when find returns undefined.
FindModel(modelId) ==
    IF modelId \in KnownIds
    THEN CHOOSE j \in 1..Len(AVAILABLE_MODELS) :
            /\ AVAILABLE_MODELS[j].id = modelId
            /\ \A k \in 1..(j-1) : AVAILABLE_MODELS[k].id # modelId
    ELSE 0

\* Object.entries(BONE_ALIASES), in insertion order.
BONE_ALIASES == <<
    <<<<"h","i","p","s">>, "hips">>,
    <<<<"p","e","l","v","i","s">>, "hips">>,
    <<<<"r","o","o","t">>, "hips">>,
    <<<<"s","p","i","n","e">>, "spine">>,
    <<<<"s","p","i","n","e","1">>, "spine1">>,
    <<<<"s","p","i","n","e","2">>, "spine2">>,
    <<<<"c","h","e","s","t">>, "chest">>,
    <<<<"u","p","p","e","r","c","h","e","s","t">>, "chest">>,
    <<<<"n","e","c","k">>, "neck">>,
    <<<<"h","e","a","d">>, "head">>,
    <<<<"l","e","f","t","s","h","o","u","l","d","e","r">>, "leftShoulder">>,
    <<<<"s","h","o","u","l","d","e","r","l">>, "leftShoulder">>,
    <<<<"l","s","h","o","u","l","d","e","r">>, "leftShoulder">>,
    <<<<"l","e","f","t","a","r","m">>, "leftUpperArm">>,
    <<<<"l","e","f","t","u","p","p","e","r","a","r","m">>, "leftUpperArm">>,
    <<<<"u","p","p","e","r","a","r","m","l">>, "leftUpperArm">>,
    <<<<"l","u","p","p","e","r","a","r","m">>, "leftUpperArm">>,
    <<<<"l","e","f","t","f","o","r","e","a","r","m">>, "leftForeArm">>,
    <<<<"f","o","r","e","a","r","m","l">>, "leftForeArm">>,
    <<<<"l","f","o","r","e","a","r","m">>, "leftForeArm">>,
    <<<<"l","e","f","t","h","a","n","d">>, "leftHand">>,
    <<<<"h","a","n","d","l">>, "leftHand">>,
    <<<<"l","h","a","n","d">>, "leftHand">>,
    <<<<"r","i","g","h","t","s","h","o","u","l","d","e","r">>, "rightShoulder">>,
    <<<<"s","h","o","u","l","d","e","r","r">>, "rightShoulder">>,
    <<<<"r","s","h","o","u","l","d","e","r">>, "rightShoulder">>,
    <<<<"r","i","g","h","t","a","r","m">>, "rightUpperArm">>,
    <<<<"r","i","g","h","t","u","p","p","e","r","a","r","m">>, "rightUpperArm">>,
    <<<<"u","p","p","e","r","a","r","m","r">>, "rightUpperArm">>,
    <<<<"r","u","p","p","e","r","a","r","m">>, "rightUpperArm">>,
    <<<<"r","i","g","h","t","f","o","r","e","a","r","m">>, "rightForeArm">>,
    <<<<"f","o","r","e","a","r","m","r">>, "rightForeArm">>,
    <<<<"r","f","o","r","e","a","r","m">>, "rightForeArm">>,
    <<<<"r","i","g","h","t","h","a","n","d">>, "rightHand">>,
    <<<<"h","a","n","d","r">>, "rightHand">>,
    <<<<"r","h","a","n","d">>, "rightHand">>,
    <<<<"l","e","f","t","u","p","l","e","g">>, "leftUpLeg">>,
    <<<<"l","e","f","t","t","h","i","g","h">>, "leftUpLeg">>,
    <<<<"t","h","i","g","h","l">>, "leftUpLeg">>,
    <<<<"l","t","h","i","g","h">>, "leftUpLeg">>,
    <<<<"l","e","f","t","l","e","g">>, "leftLeg">>,
    <<<<"l","e","f","t","s","h","i","n">>, "leftLeg">>,
    <<<<"s","h","i","n","l">>, "leftLeg">>,
    <<<<"l","s","h","i","n">>, "leftLeg">>,
    <<<<"l","e","f","t","l","o","w","l","e","g">>, "leftLeg">>,
    <<<<"l","e","f","t","f","o","o","t">>, "leftFoot">>,
    <<<<"f","o","o","t","l">>, "leftFoot">>,
    <<<<"l","f","o","o","t">>, "leftFoot">>,
    <<<<"r","i","g","h","t","u","p","l","e","g">>, "rightUpLeg">>,
    <<<<"r","i","g","h","t","t","h","i","g","h">>, "rightUpLeg">>,
    <<<<"t","h","i","g","h","r">>, "rightUpLeg">>,
    <<<<"r","t","h","i","g","h">>, "rightUpLeg">>,
    <<<<"r","i","g","h","t","l","e","g">>, "rightLeg">>,
    <<<<"r","i","g","h","t","s","h","i","n">>, "rightLeg">>,
    <<<<"s","h","i","n","r">>, "rightLeg">>,
    <<<<"r","s","h","i","n">>, "rightLeg">>,
    <<<<"r","i","g","h","t","l","o","w","l","e","g">>, "rightLeg">>,
    <<<<"r","i","g","h","t","f","o","o","t">>, "rightFoot">>,
    <<<<"f","o","o","t","r">>, "rightFoot">>,
    <<<<"r","f","o","o","t">>, "rightFoot">>,
    <<<<"m","i","x","a","m","o","r","i","g","l","e","f","t","a","r","m">>, "leftUpperArm">>,
    <<<<"m","i","x","a","m","o","r","i","g","r","i","g","h","t","a","r","m">>, "rightUpperArm">>,
    <<<<"m","i","x","a","m","o","r","i","g","l","e","f","t","f","o","r","e","a","r","m">>, "leftForeArm">>,
    <<<<"m","i","x","a","m","o","r","i","g","r","i","g","h","t","f","o","r","e","a","r","m">>, "rightForeArm">>,
    <<<<"m","i","x","a","m","o","r","i","g","l","e","f","t","u","p","l","e","g">>, "leftUpLeg">>,
    <<<<"m","i","x","a","m","o","r","i","g","r","i","g","h","t","u","p","l","e","g">>, "rightUpLeg">>,
    <<<<"m","i","x","a","m","o","r","i","g","l","e","f","t","l","e","g">>, "leftLeg">>,
    <<<<"m","i","x","a","m","o","r","i","g","r","i","g","h","t","l","e","g">>, "rightLeg">> >>

\* ------------------------------------------------------- string functions
UpperCase == <<"A","B","C","D","E","F","G","H","I","J","K","L","M",
               "N","O","P","Q","R","S","T","U","V","W","X","Y","Z">>
LowerCase == <<"a","b","c","d","e","f","g","h","i","j","k","l","m",
               "n","o","p","q","r","s","t","u","v","w","x","y","z">>
Digits == {"0","1","2","3","4","5","6","7","8","9"}

toLowerCase(s) ==
    [i \in 1..Len(s) |->
        IF \E j \in 1..26 : UpperCase[j] = s[i]
        THEN LowerCase[CHOOSE j \in 1..26 : UpperCase[j] = s[i]]
        ELSE s[i]]

IsLowerAlnum(c) == c \in Digits \/ \E j \in 1..26 : LowerCase[j] = c

\* bone.name.toLowerCase().replace(/[^a-z0-9]/g, '')
NormalizeName(s) == SelectSeq(toLowerCase(s), IsLowerAlnum)

\* String.prototype.includes
includes(s, sub) ==
    \E k \in 0..(Len(s) - Len(sub)) : SubSeq(s, k + 1, k + Len(sub)) = sub

\* The alias loop of mapBone: the index in BONE_ALIASES of the first alias,
\* from index i on, with name.includes(alias) || alias.includes(name); 0 when
\* the loop ends without a match.
RECURSIVE AliasIndexFrom(_, _)
AliasIndexFrom(name, i) ==
    IF i > Len(BONE_ALIASES) THEN 0
    ELSE IF includes(name, BONE_ALIASES[i][1]) \/ includes(BONE_ALIASES[i][1], name)
         THEN i
         ELSE AliasIndexFrom(name, i + 1)

AliasIndex(name) == AliasIndexFrom(name, 1)

\* The else-if chain of mapBone ("fuzzy match"); NULL when nothing matches.
FuzzyStandardName(name) ==
    IF includes(name, <<"h","i","p">>) \/ includes(name, <<"p","e","l","v","i","s">>)
        THEN "hips"
    ELSE IF includes(name, <<"s","p","i","n","e">>)
        THEN "spine"
    ELSE IF includes(name, <<"c","h","e","s","t">>) \/ includes(name, <<"t","o","r","s","o">>)
        THEN "chest"
    ELSE IF includes(name, <<"n","e","c","k">>)
        THEN "neck"
    ELSE IF includes(name, <<"h","e","a","d">>) /\ ~includes(name, <<"e","n","d">>)
        THEN "head"
    ELSE IF includes(name, <<"s","h","o","u","l","d","e","r">>) /\ (includes(name, <<"l">>) \/ includes(name, <<"l","e","f","t">>))
        THEN "leftShoulder"
    ELSE IF includes(name, <<"s","h","o","u","l","d","e","r">>) /\ (includes(name, <<"r">>) \/ includes(name, <<"r","i","g","h","t">>))
        THEN "rightShoulder"
    ELSE IF (includes(name, <<"a","r","m">>) \/ includes(name, <<"u","p","p","e","r">>)) /\ (includes(name, <<"l">>) \/ includes(name, <<"l","e","f","t">>)) /\ ~includes(name, <<"f","o","r","e">>)
        THEN "leftUpperArm"
    ELSE IF (includes(name, <<"a","r","m">>) \/ includes(name, <<"u","p","p","e","r">>)) /\ (includes(name, <<"r">>) \/ includes(name, <<"r","i","g","h","t">>)) /\ ~includes(name, <<"f","o","r","e">>)
        THEN "rightUpperArm"
    ELSE IF includes(name, <<"f","o","r","e">>) /\ (includes(name, <<"l">>) \/ includes(name, <<"l","e","f","t">>))
        THEN "leftForeArm"
    ELSE IF includes(name, <<"f","o","r","e">>) /\ (includes(name, <<"r">>) \/ includes(name, <<"r","i","g","h","t">>))
        THEN "rightForeArm"
    ELSE IF includes(name, <<"h","a","n","d">>) /\ (includes(name, <<"l">>) \/ includes(name, <<"l","e","f","t">>))
        THEN "leftHand"
    ELSE IF includes(name, <<"h","a","n","d">>) /\ (includes(name, <<"r">>) \/ includes(name, <<"r","i","g","h","t">>))
        THEN "rightHand"
    ELSE IF (includes(name, <<"t","h","i","g","h">>) \/ includes(name, <<"u","p","l","e","g">>)) /\ (includes(name, <<"l">>) \/ includes(name, <<"l","e","f","t">>))
        THEN "leftUpLeg"
    ELSE IF (includes(name, <<"t","h","i","g","h">>) \/ includes(name, <<"u","p","l","e","g">>)) /\ (includes(name, <<"r">>) \/ includes(name, <<"r","i","g","h","t">>))
        THEN "rightUpLeg"
    ELSE IF (includes(name, <<"s","h","i","n">>) \/ includes(name, <<"c","a","l","f">>) \/ includes(name, <<"l","e","g">>)) /\ (includes(name, <<"l">>) \/ includes(name, <<"l","e","f","t">>)) /\ ~includes(name, <<"u","p">>)
        THEN "leftLeg"
    ELSE IF (includes(name, <<"s","h","i","n">>) \/ includes(name, <<"c","a","l","f">>) \/ includes(name, <<"l","e","g">>)) /\ (includes(name, <<"r">>) \/ includes(name, <<"r","i","g","h","t">>)) /\ ~includes(name, <<"u","p">>)
        THEN "rightLeg"
    ELSE IF includes(name, <<"f","o","o","t">>) /\ (includes(name, <<"l">>) \/ includes(name, <<"l","e","f","t">>))
        THEN "leftFoot"
    ELSE IF includes(name, <<"f","o","o","t">>) /\ (includes(name, <<"r">>) \/ includes(name, <<"r","i","g","h","t">>))
        THEN "rightFoot"
    ELSE NULL

\* ------------------------------------------------------------ bone mapping
\* mapBone's assignments without the rest-pose snapshot of lines 494-497 and
\* 532-535: the bone is stored, its rest pose is not.
SetBone_BonesOnly(t, standard, bone) ==
    [t EXCEPT !.bones = Put(t.bones, standard, bone.ref),
              !.hasSkeleton = TRUE,
              !.skeletonCache =
                  IF t.tablesOf = NULL THEN t.skeletonCache
                  ELSE [t.skeletonCache EXCEPT
                          ![t.tablesOf].bones = Put(@, standard, bone.ref)]]

\* The three assignments mapBone makes when it fills a slot.  this.bones and
\* this.restPose are references: when they refer to the tables of a cache
\* entry (tablesOf), the entry sees the assignment as well.
SetBone(t, standard, bone) ==
    LET rest == [position |-> bone.position, quaternion |-> bone.quaternion]
    IN [t EXCEPT !.bones = Put(t.bones, standard, bone.ref),
                 !.restPose = Put(t.restPose, standard, rest),
                 !.hasSkeleton = TRUE,
                 !.skeletonCache =
                     IF t.tablesOf = NULL THEN t.skeletonCache
                     ELSE [t.skeletonCache EXCEPT
                             ![t.tablesOf].bones = Put(@, standard, bone.ref),
                             ![t.tablesOf].restPose = Put(@, standard, rest)]]

\* mapBone's name resolution without the normalisation of line 487: the raw
\* name is matched as it is written.
StandardNameOf_Raw(rawName) ==
    LET ai == AliasIndex(rawName)
    IN IF ai # 0 THEN BONE_ALIASES[ai][2] ELSE FuzzyStandardName(rawName)

\* The canonical name mapBone picks for a raw bone name (lines 487-528):
\* the first matching alias decides, the fuzzy chain is tried only when no
\* alias matches; NULL when neither matches.
StandardNameOf(rawName) ==
    LET name == NormalizeName(rawName)
        ai == AliasIndex(name)
    IN IF ai # 0 THEN BONE_ALIASES[ai][2] ELSE FuzzyStandardName(name)

\* ------------------------------------------------------------- the scenes
\* The scenes the loader can deliver, as the node lists that traverse()
\* visits: a rigged scene (a skinned mesh whose skeleton lists the bones,
\* which are nodes of the hierarchy as well) and a scene without any bone.
RiggedScene == <<
    [name |-> <<"B","o","d","y">>, isBone |-> FALSE, isSkinnedMesh |-> TRUE,
         skeleton |-> [present |-> TRUE, bones |-> <<2,3,4,5,6,7,8,9,10,11>>], position |-> 0, quaternion |-> 0],
    [name |-> <<"H","i","p","s">>, isBone |-> TRUE, isSkinnedMesh |-> FALSE,
         skeleton |-> [present |-> FALSE, bones |-> <<>>], position |-> 1, quaternion |-> 0],
    [name |-> <<"S","p","i","n","e">>, isBone |-> TRUE, isSkinnedMesh |-> FALSE,
         skeleton |-> [present |-> FALSE, bones |-> <<>>], position |-> 2, quaternion |-> 0],
    [name |-> <<"s","p","i","n","e","_","I","K">>, isBone |-> TRUE, isSkinnedMesh |-> FALSE,
         skeleton |-> [present |-> FALSE, bones |-> <<>>], position |-> 3, quaternion |-> 0],
    [name |-> <<"H","e","a","d">>, isBone |-> TRUE, isSkinnedMesh |-> FALSE,
         skeleton |-> [present |-> FALSE, bones |-> <<>>], position |-> 4, quaternion |-> 0],
    [name |-> <<"m","i","x","a","m","o","r","i","g",":","L","e","f","t","A","r","m">>, isBone |-> TRUE, isSkinnedMesh |-> FALSE,
         skeleton |-> [present |-> FALSE, bones |-> <<>>], position |-> 5, quaternion |-> 10 * Tick],
    [name |-> <<"m","i","x","a","m","o","r","i","g",":","L","e","f","t","F","o","r","e","A","r","m">>, isBone |-> TRUE, isSkinnedMesh |-> FALSE,
         skeleton |-> [present |-> FALSE, bones |-> <<>>], position |-> 6, quaternion |-> 0],
    [name |-> <<"R","i","g","h","t","A","r","m">>, isBone |-> TRUE, isSkinnedMesh |-> FALSE,
         skeleton |-> [present |-> FALSE, bones |-> <<>>], position |-> 7, quaternion |-> 10 * Tick],
    [name |-> <<"R","i","g","h","t","F","o","r","e","A","r","m">>, isBone |-> TRUE, isSkinnedMesh |-> FALSE,
         skeleton |-> [present |-> FALSE, bones |-> <<>>], position |-> 8, quaternion |-> 0],
    [name |-> <<"R","i","g","h","t","H","a","n","d">>, isBone |-> TRUE, isSkinnedMesh |-> FALSE,
         skeleton |-> [present |-> FALSE, bones |-> <<>>], position |-> 9, quaternion |-> 0],
    [name |-> <<"L","e","f","t","U","p","L","e","g">>, isBone |-> TRUE, isSkinnedMesh |-> FALSE,
         skeleton |-> [present |-> FALSE, bones |-> <<>>], position |-> 10, quaternion |-> 0] >>

StaticScene == <<
    [name |-> <<"M","e","s","h","_","0">>, isBone |-> FALSE, isSkinnedMesh |-> FALSE,
         skeleton |-> [present |-> FALSE, bones |-> <<>>], position |-> 0, quaternion |-> 0] >>

\* The loader's results by name.
SceneNames == {"rigged", "static"}
SceneNodes(name) == IF name = "rigged" THEN RiggedScene ELSE StaticScene

\* StandardNameOf tabulated over the bone names of the scenes (evaluated once).
SceneBoneNames ==
    {RiggedScene[i].name : i \in 1..Len(RiggedScene)}
        \cup {StaticScene[i].name : i \in 1..Len(StaticScene)}

ResolveTable == [rawName \in SceneBoneNames |-> StandardNameOf(rawName)]

ResolvedName(rawName) ==
    IF rawName \in SceneBoneNames THEN ResolveTable[rawName] ELSE StandardNameOf(rawName)

\* mapBone whose alias loop goes on to the next matching alias when the slot
\* of a matching alias is taken: the slot then depends on the bones mapped
\* before.
mapBone_NextFreeAlias(t, bone) ==
    LET name == NormalizeName(bone.name)
        free == {i \in 1..Len(BONE_ALIASES) :
                    /\ includes(name, BONE_ALIASES[i][1]) \/ includes(BONE_ALIASES[i][1], name)
                    /\ ~Has(t.bones, BONE_ALIASES[i][2])}
        standard == ResolvedName(bone.name)
    IN IF free # {}
       THEN SetBone(t, BONE_ALIASES[CHOOSE i \in free : \A j \in free : i <= j][2], bone)
       ELSE IF standard # NULL /\ ~Has(t.bones, standard)
       THEN SetBone(t, standard, bone)
       ELSE t

mapBone(t, bone) ==
    LET standard == ResolvedName(bone.name)
    IN IF standard # NULL /\ ~Has(t.bones, standard)
       THEN SetBone(t, standard, bone)
       ELSE t

\* A node of a loaded scene as mapBone sees it: ref is the identity of the
\* object (scene serial, index in traversal order).
BoneOf(model, i) ==
    [ref |-> <<model.serial, i>>, name |-> model.nodes[i].name,
     position |-> model.nodes[i].position, quaternion |-> model.nodes[i].quaternion]

RECURSIVE MapSkeletonBones(_, _, _, _)
MapSkeletonBones(t, model, list, k) ==
    IF k > Len(list) THEN t
    ELSE MapSkeletonBones(mapBone(t, BoneOf(model, list[k])), model, list, k + 1)

\* What the traverse callback of findAndMapBones does for one object.
VisitObject(t, model, i) ==
    LET object == model.nodes[i]
        t1 == IF object.isSkinnedMesh /\ object.skeleton.present
              THEN MapSkeletonBones([t EXCEPT !.skeleton = <<model.serial, i>>,
                                              !.hasSkeleton = TRUE],
                                    model, object.skeleton.bones, 1)
              ELSE t
    IN IF object.isBone THEN mapBone(t1, BoneOf(model, i)) ELSE t1

RECURSIVE Traverse(_, _, _)
Traverse(t, model, i) ==
    IF i > Len(model.nodes) THEN t
    ELSE Traverse(VisitObject(t, model, i), model, i + 1)

findAndMapBones(t, model) == Traverse(t, model, 1)

\* ------------------------------------------- SkeletonDrivenCharacter mapping
\* Object.entries(BONE_NAME_ALIASES), in insertion order.
BONE_NAME_ALIASES == <<
    <<<<"m","i","x","a","m","o","r","i","g","H","i","p","s">>, "spine">>,
    <<<<"m","i","x","a","m","o","r","i","g","S","p","i","n","e">>, "spine1">>,
    <<<<"m","i","x","a","m","o","r","i","g","S","p","i","n","e","1">>, "spine2">>,
    <<<<"m","i","x","a","m","o","r","i","g","S","p","i","n","e","2">>, "chest">>,
    <<<<"m","i","x","a","m","o","r","i","g","N","e","c","k">>, "neck">>,
    <<<<"m","i","x","a","m","o","r","i","g","H","e","a","d">>, "head">>,
    <<<<"m","i","x","a","m","o","r","i","g","L","e","f","t","S","h","o","u","l","d","e","r">>, "leftShoulder">>,
    <<<<"m","i","x","a","m","o","r","i","g","L","e","f","t","A","r","m">>, "leftUpperArm">>,
    <<<<"m","i","x","a","m","o","r","i","g","L","e","f","t","F","o","r","e","A","r","m">>, "leftForeArm">>,
    <<<<"m","i","x","a","m","o","r","i","g","L","e","f","t","H","a","n","d">>, "leftHand">>,
    <<<<"m","i","x","a","m","o","r","i","g","R","i","g","h","t","S","h","o","u","l","d","e","r">>, "rightShoulder">>,
    <<<<"m","i","x","a","m","o","r","i","g","R","i","g","h","t","A","r","m">>, "rightUpperArm">>,
    <<<<"m","i","x","a","m","o","r","i","g","R","i","g","h","t","F","o","r","e","A","r","m">>, "rightForeArm">>,
    <<<<"m","i","x","a","m","o","r","i","g","R","i","g","h","t","H","a","n","d">>, "rightHand">>,
    <<<<"m","i","x","a","m","o","r","i","g","L","e","f","t","U","p","L","e","g">>, "leftUpLeg">>,
    <<<<"m","i","x","a","m","o","r","i","g","L","e","f","t","L","e","g">>, "leftLeg">>,
    <<<<"m","i","x","a","m","o","r","i","g","L","e","f","t","F","o","o","t">>, "leftFoot">>,
    <<<<"m","i","x","a","m","o","r","i","g","R","i","g","h","t","U","p","L","e","g">>, "rightUpLeg">>,
    <<<<"m","i","x","a","m","o","r","i","g","R","i","g","h","t","L","e","g">>, "rightLeg">>,
    <<<<"m","i","x","a","m","o","r","i","g","R","i","g","h","t","F","o","o","t">>, "rightFoot">>,
    <<<<"H","i","p","s">>, "spine">>,
    <<<<"S","p","i","n","e">>, "spine1">>,
    <<<<"S","p","i","n","e","1">>, "spine2">>,
    <<<<"S","p","i","n","e","2">>, "chest">>,
    <<<<"N","e","c","k">>, "neck">>,
    <<<<"H","e","a","d">>, "head">>,
    <<<<"L","e","f","t","S","h","o","u","l","d","e","r">>, "leftShoulder">>,
    <<<<"L","e","f","t","A","r","m">>, "leftUpperArm">>,
    <<<<"L","e","f","t","F","o","r","e","A","r","m">>, "leftForeArm">>,
    <<<<"L","e","f","t","H","a","n","d">>, "leftHand">>,
    <<<<"R","i","g","h","t","S","h","o","u","l","d","e","r">>, "rightShoulder">>,
    <<<<"R","i","g","h","t","A","r","m">>, "rightUpperArm">>,
    <<<<"R","i","g","h","t","F","o","r","e","A","r","m">>, "rightForeArm">>,
    <<<<"R","i","g","h","t","H","a","n","d">>, "rightHand">>,
    <<<<"L","e","f","t","U","p","L","e","g">>, "leftUpLeg">>,
    <<<<"L","e","f","t","L","e","g">>, "leftLeg">>,
    <<<<"L","e","f","t","F","o","o","t">>, "leftFoot">>,
    <<<<"R","i","g","h","t","U","p","L","e","g">>, "rightUpLeg">>,
    <<<<"R","i","g","h","t","L","e","g">>, "rightLeg">>,
    <<<<"R","i","g","h","t","F","o","o","t">>, "rightFoot">>,
    <<<<"s","h","o","u","l","d","e","r","_","l">>, "leftShoulder">>,
    <<<<"u","p","p","e","r","_","a","r","m","_","l">>, "leftUpperArm">>,
    <<<<"f","o","r","e","a","r","m","_","l">>, "leftForeArm">>,
    <<<<"h","a","n","d","_","l">>, "leftHand">>,
    <<<<"s","h","o","u","l","d","e","r","_","r">>, "rightShoulder">>,
    <<<<"u","p","p","e","r","_","a","r","m","_","r">>, "rightUpperArm">>,
    <<<<"f","o","r","e","a","r","m","_","r">>, "rightForeArm">>,
    <<<<"h","a","n","d","_","r">>, "rightHand">>,
    <<<<"t","h","i","g","h","_","l">>, "leftUpLeg">>,
    <<<<"s","h","i","n","_","l">>, "leftLeg">>,
    <<<<"f","o","o","t","_","l">>, "leftFoot">>,
    <<<<"t","h","i","g","h","_","r">>, "rightUpLeg">>,
    <<<<"s","h","i","n","_","r">>, "rightLeg">>,
    <<<<"f","o","o","t","_","r">>, "rightFoot">> >>

\* The chain of if statements of getStandardBoneName ("fuzzy match") on the
\* lower-cased name; NULL when nothing matches.
DrivenFuzzyName(lowerName) ==
    IF includes(lowerName, <<"h","i","p">>) \/ includes(lowerName, <<"p","e","l","v","i","s">>)
        THEN "spine"
    ELSE IF includes(lowerName, <<"s","p","i","n","e">>) /\ ~includes(lowerName, <<"1">>) /\ ~includes(lowerName, <<"2">>)
        THEN "spine1"
    ELSE IF includes(lowerName, <<"c","h","e","s","t">>) \/ includes(lowerName, <<"t","o","r","s","o">>)
        THEN "chest"
    ELSE IF includes(lowerName, <<"n","e","c","k">>)
        THEN "neck"
    ELSE IF includes(lowerName, <<"h","e","a","d">>) /\ ~includes(lowerName, <<"e","n","d">>)
        THEN "head"
    ELSE IF includes(lowerName, <<"s","h","o","u","l","d","e","r">>) /\ includes(lowerName, <<"l">>)
        THEN "leftShoulder"
    ELSE IF includes(lowerName, <<"s","h","o","u","l","d","e","r">>) /\ includes(lowerName, <<"r">>)
        THEN "rightShoulder"
    ELSE IF (includes(lowerName, <<"a","r","m">>) \/ includes(lowerName, <<"u","p","p","e","r">>)) /\ includes(lowerName, <<"l">>) /\ ~includes(lowerName, <<"f","o","r","e">>)
        THEN "leftUpperArm"
    ELSE IF (includes(lowerName, <<"a","r","m">>) \/ includes(lowerName, <<"u","p","p","e","r">>)) /\ includes(lowerName, <<"r">>) /\ ~includes(lowerName, <<"f","o","r","e">>)
        THEN "rightUpperArm"
    ELSE IF includes(lowerName, <<"f","o","r","e">>) /\ includes(lowerName, <<"l">>)
        THEN "leftForeArm"
    ELSE IF includes(lowerName, <<"f","o","r","e">>) /\ includes(lowerName, <<"r">>)
        THEN "rightForeArm"
    ELSE IF includes(lowerName, <<"h","a","n","d">>) /\ includes(lowerName, <<"l">>)
        THEN "leftHand"
    ELSE IF includes(lowerName, <<"h","a","n","d">>) /\ includes(lowerName, <<"r">>)
        THEN "rightHand"
    ELSE IF (includes(lowerName, <<"t","h","i","g","h">>) \/ includes(lowerName, <<"u","p","l","e","g">>)) /\ includes(lowerName, <<"l">>)
        THEN "leftUpLeg"
    ELSE IF (includes(lowerName, <<"t","h","i","g","h">>) \/ includes(lowerName, <<"u","p","l","e","g">>)) /\ includes(lowerName, <<"r">>)
        THEN "rightUpLeg"
    ELSE IF (includes(lowerName, <<"s","h","i","n">>) \/ includes(lowerName, <<"c","a","l","f">>) \/ (includes(lowerName, <<"l","e","g">>) /\ ~includes(lowerName, <<"u","p">>))) /\ includes(lowerName, <<"l">>)
        THEN "leftLeg"
    ELSE IF (includes(lowerName, <<"s","h","i","n">>) \/ includes(lowerName, <<"c","a","l","f">>) \/ (includes(lowerName, <<"l","e","g">>) /\ ~includes(lowerName, <<"u","p">>))) /\ includes(lowerName, <<"r">>)
        THEN "rightLeg"
    ELSE IF includes(lowerName, <<"f","o","o","t">>) /\ includes(lowerName, <<"l">>)
        THEN "leftFoot"
    ELSE IF includes(lowerName, <<"f","o","o","t">>) /\ includes(lowerName, <<"r">>)
        THEN "rightFoot"
    ELSE NULL

\* getStandardBoneName: the alias with exactly this key, else the first
\* alias equal to the name up to letter case, else the fuzzy chain.
getStandardBoneName(boneName) ==
    LET lowerName == toLowerCase(boneName)
        exact == {i \in 1..Len(BONE_NAME_ALIASES) : BONE_NAME_ALIASES[i][1] = boneName}
        sameLower == {i \in 1..Len(BONE_NAME_ALIASES) :
                         toLowerCase(BONE_NAME_ALIASES[i][1]) = lowerName}
    IN IF exact # {} THEN BONE_NAME_ALIASES[CHOOSE i \in exact : TRUE][2]
       ELSE IF sameLower # {}
       THEN BONE_NAME_ALIASES[CHOOSE i \in sameLower : \A j \in sameLower : i <= j][2]
       ELSE DrivenFuzzyName(lowerName)

\* getStandardBoneName tabulated over the bone names of the scenes.
DrivenResolveTable == [rawName \in SceneBoneNames |-> getStandardBoneName(rawName)]

DrivenResolvedName(rawName) ==
    IF rawName \in SceneBoneNames THEN DrivenResolveTable[rawName]
    ELSE getStandardBoneName(rawName)

\* The fields of a SkeletonDrivenCharacter that findSkeleton assigns, after
\* the constructor.
SkeletonDrivenConstructed ==
    [skeleton |-> <<>>, bones |-> EmptyMap, restPose |-> EmptyMap]

\* this.bones[standardName] = bone with its rest pose (the scale of the bone
\* is not part of the state modelled).
DrivenSetBone(d, standardName, bone) ==
    [d EXCEPT !.bones = Put(d.bones, standardName, bone.ref),
              !.restPose = Put(d.restPose, standardName,
                               [position |-> bone.position, rotation |-> bone.quaternion])]

\* The body of this.skeleton.bones.forEach in findSkeleton, from bone k of
\* the list on: a bone with a standard name is stored in its slot.
RECURSIVE DrivenMapSkeletonBones(_, _, _, _)
DrivenMapSkeletonBones(d, model, list, k) ==
    IF k > Len(list) THEN d
    ELSE LET bone == BoneOf(model, list[k])
             standardName == DrivenResolvedName(bone.name)
         IN DrivenMapSkeletonBones(
                IF standardName # NULL THEN DrivenSetBone(d, standardName, bone) ELSE d,
                model, list, k + 1)

\* What the traverse callback of findSkeleton does for one object.
findSkeletonVisit(d, model, i) ==
    LET object == model.nodes[i]
        d1 == IF object.isSkinnedMesh /\ object.skeleton.present
              THEN DrivenMapSkeletonBones([d EXCEPT !.skeleton = <<model.serial, i>>],
                                          model, object.skeleton.bones, 1)
              ELSE d
        standardName == DrivenResolvedName(object.name)
    IN IF object.isBone /\ standardName # NULL /\ ~Has(d1.bones, standardName)
       THEN DrivenSetBone(d1, standardName, BoneOf(model, i))
       ELSE d1


\* ------------------------------------------------------ ModelCharacter
\* The object after the constructor.  model is the serial of the scene
\* object held in this.model (0 for null); modelCache maps a model id to
\* the serial of the cached scene; rootVisible is the .visible flag of every
\* scene root; boneQuaternion is the .quaternion of every bone object.
Constructed ==
    [model |-> 0, visible |-> FALSE, isLoaded |-> FALSE, currentModelId |-> NULL,
     skeleton |-> <<>>, bones |-> EmptyMap, hasSkeleton |-> FALSE, restPose |-> EmptyMap,
     modelCache |-> EmptyMap, skeletonCache |-> EmptyMap, loadingPromises |-> EmptyMap,
     previousRotation |-> 0, targetPosition |-> 0,
     hasPreviousLandmarks |-> FALSE, previousLandmarks |-> <<>>,
     previousBoneRotations |-> EmptyMap,
     groupVisible |-> TRUE, groupPosition |-> 0, groupRotationY |-> 0,
     rootVisible |-> EmptyMap, boneQuaternion |-> EmptyMap, bonePosition |-> EmptyMap,
     tablesOf |-> NULL]

\* Object.values(this.modelCache).forEach(m => m.visible = false)
HideAllCached(t) ==
    [t EXCEPT !.rootVisible =
        [s \in DOMAIN t.rootVisible |->
            IF s \in Values(t.modelCache) THEN FALSE ELSE t.rootVisible[s]]]

\* _activateModel showing the model it activates (true at line 149 in place
\* of this.visible).
_activateModel_Shows(t, modelId) ==
    LET t1 == HideAllCached(t)
        cached == Has(t1.skeletonCache, modelId)
    IN IF ~Has(t1.modelCache, modelId)
       THEN [t1 EXCEPT !.model = 0]
       ELSE [t1 EXCEPT
               !.model = t1.modelCache[modelId],
               !.rootVisible = [t1.rootVisible EXCEPT ![t1.modelCache[modelId]] = TRUE],
               !.bones = IF cached THEN t1.skeletonCache[modelId].bones ELSE EmptyMap,
               !.hasSkeleton = IF cached THEN t1.skeletonCache[modelId].hasSkeleton ELSE FALSE,
               !.restPose = IF cached THEN t1.skeletonCache[modelId].restPose ELSE EmptyMap,
               !.tablesOf = IF cached THEN modelId ELSE NULL,
               !.currentModelId = modelId,
               !.isLoaded = TRUE]

\* _activateModel without line 148: this.model keeps the root it had.
_activateModel_KeepModel(t, modelId) ==
    LET t1 == HideAllCached(t)
        cached == Has(t1.skeletonCache, modelId)
    IN IF ~Has(t1.modelCache, modelId)
       THEN [t1 EXCEPT !.model = 0]
       ELSE [t1 EXCEPT
               !.rootVisible = [t1.rootVisible EXCEPT ![t1.modelCache[modelId]] = t1.visible],
               !.bones = IF cached THEN t1.skeletonCache[modelId].bones ELSE EmptyMap,
               !.hasSkeleton = IF cached THEN t1.skeletonCache[modelId].hasSkeleton ELSE FALSE,
               !.restPose = IF cached THEN t1.skeletonCache[modelId].restPose ELSE EmptyMap,
               !.tablesOf = IF cached THEN modelId ELSE NULL,
               !.currentModelId = modelId,
               !.isLoaded = TRUE]

\* _activateModel without line 146: the other cached roots are not hidden.
_activateModel_NoHide(t, modelId) ==
    LET cached == Has(t.skeletonCache, modelId)
    IN IF ~Has(t.modelCache, modelId)
       THEN [t EXCEPT !.model = 0]
       ELSE [t EXCEPT
               !.model = t.modelCache[modelId],
               !.rootVisible = [t.rootVisible EXCEPT ![t.modelCache[modelId]] = t.visible],
               !.bones = IF cached THEN t.skeletonCache[modelId].bones ELSE EmptyMap,
               !.hasSkeleton = IF cached THEN t.skeletonCache[modelId].hasSkeleton ELSE FALSE,
               !.restPose = IF cached THEN t.skeletonCache[modelId].restPose ELSE EmptyMap,
               !.tablesOf = IF cached THEN modelId ELSE NULL,
               !.currentModelId = modelId,
               !.isLoaded = TRUE]

\* When modelCache has no entry for modelId, line 148 stores undefined in
\* this.model and line 149 throws a TypeError, which ends the method.
_activateModel(t, modelId) ==
    LET t1 == HideAllCached(t)
        cached == Has(t1.skeletonCache, modelId)
    IN IF ~Has(t1.modelCache, modelId)
       THEN [t1 EXCEPT !.model = 0]
       ELSE [t1 EXCEPT
               !.model = t1.modelCache[modelId],
               !.rootVisible = [t1.rootVisible EXCEPT ![t1.modelCache[modelId]] = t1.visible],
               !.bones = IF cached THEN t1.skeletonCache[modelId].bones ELSE EmptyMap,
               !.hasSkeleton = IF cached THEN t1.skeletonCache[modelId].hasSkeleton ELSE FALSE,
               !.restPose = IF cached THEN t1.skeletonCache[modelId].restPose ELSE EmptyMap,
               !.tablesOf = IF cached THEN modelId ELSE NULL,
               !.currentModelId = modelId,
               !.isLoaded = TRUE]

\* loadModel without lines 173-178: a call for an id that is loading starts
\* a load of its own.
loadModelSync_NoAttach(t, modelId, n) ==
    LET hidden == HideAllCached(t)
    IN IF FindModel(modelId) = 0
       THEN [this |-> t, path |-> "unknown"]
       ELSE IF t.currentModelId = modelId /\ t.isLoaded
       THEN [this |-> t, path |-> "current"]
       ELSE IF Has(hidden.modelCache, modelId)
       THEN [this |-> _activateModel(hidden, modelId), path |-> "cached"]
       ELSE [this |-> [hidden EXCEPT !.loadingPromises = Put(@, modelId, n)],
             path |-> "starter"]

\* loadModel without lines 184-188: a cached id that is not active is loaded
\* again.
loadModelSync_NoCacheCheck(t, modelId, n) ==
    LET hidden == HideAllCached(t)
    IN IF FindModel(modelId) = 0
       THEN [this |-> t, path |-> "unknown"]
       ELSE IF t.currentModelId = modelId /\ t.isLoaded
       THEN [this |-> t, path |-> "current"]
       ELSE IF Has(t.loadingPromises, modelId)
       THEN [this |-> t, path |-> "waiter"]
       ELSE [this |-> [hidden EXCEPT !.loadingPromises = Put(@, modelId, n)],
             path |-> "starter"]

\* loadModel marking the character as not loaded while the load it starts
\* is in flight.
loadModelSync_ClearsLoaded(t, modelId, n) ==
    LET hidden == HideAllCached(t)
    IN IF FindModel(modelId) = 0
       THEN [this |-> t, path |-> "unknown"]
       ELSE IF t.currentModelId = modelId /\ t.isLoaded
       THEN [this |-> t, path |-> "current"]
       ELSE IF Has(t.loadingPromises, modelId)
       THEN [this |-> t, path |-> "waiter"]
       ELSE IF Has(hidden.modelCache, modelId)
       THEN [this |-> _activateModel(hidden, modelId), path |-> "cached"]
       ELSE [this |-> [hidden EXCEPT !.loadingPromises = Put(@, modelId, n),
                                     !.isLoaded = FALSE],
             path |-> "starter"]

\* loadModel testing the id after line 181: an unknown id hides the cached
\* roots before it returns.
loadModelSync_UnknownHides(t, modelId, n) ==
    LET hidden == HideAllCached(t)
    IN IF FindModel(modelId) = 0
       THEN [this |-> hidden, path |-> "unknown"]
       ELSE IF t.currentModelId = modelId /\ t.isLoaded
       THEN [this |-> t, path |-> "current"]
       ELSE IF Has(t.loadingPromises, modelId)
       THEN [this |-> t, path |-> "waiter"]
       ELSE IF Has(hidden.modelCache, modelId)
       THEN [this |-> _activateModel(hidden, modelId), path |-> "cached"]
       ELSE [this |-> [hidden EXCEPT !.loadingPromises = Put(@, modelId, n)],
             path |-> "starter"]

\* loadModel up to its first await or return.  n is the serial the loader
\* invocation gets if this call starts a load.  path names the branch taken.
loadModelSync(t, modelId, n) ==
    LET hidden == HideAllCached(t)
    IN IF FindModel(modelId) = 0
       THEN [this |-> t, path |-> "unknown"]
       ELSE IF t.currentModelId = modelId /\ t.isLoaded
       THEN [this |-> t, path |-> "current"]
       ELSE IF Has(t.loadingPromises, modelId)
       THEN [this |-> t, path |-> "waiter"]
       ELSE IF Has(hidden.modelCache, modelId)
       THEN [this |-> _activateModel(hidden, modelId), path |-> "cached"]
       ELSE [this |-> [hidden EXCEPT !.loadingPromises = Put(@, modelId, n)],
             path |-> "starter"]

\* _loadModelAsync without lines 241-243: the bones of the new scene are
\* mapped into the tables the character is using.
CacheScene_NoReset(t, modelId, model) ==
    LET t1 == findAndMapBones(t, model)
    IN [t1 EXCEPT
          !.rootVisible = Put(t1.rootVisible, model.serial, FALSE),
          !.boneQuaternion =
              [r \in (DOMAIN t1.boneQuaternion)
                       \cup {<<model.serial, i>> : i \in 1..Len(model.nodes)} |->
                  IF r \in DOMAIN t1.boneQuaternion THEN t1.boneQuaternion[r]
                  ELSE model.nodes[r[2]].quaternion],
          !.bonePosition =
              [r \in (DOMAIN t1.bonePosition)
                       \cup {<<model.serial, i>> : i \in 1..Len(model.nodes)} |->
                  IF r \in DOMAIN t1.bonePosition THEN t1.bonePosition[r]
                  ELSE model.nodes[r[2]].position],
          !.modelCache = Put(t1.modelCache, modelId, model.serial),
          !.skeletonCache = Put(t1.skeletonCache, modelId,
              [bones |-> t1.bones, hasSkeleton |-> t1.hasSkeleton,
               restPose |-> t1.restPose])]

\* _loadModelAsync after the loader delivered the scene.  Lines 225-257: the
\* bones are mapped into the working tables and the scene and the tables are
\* cached (the scale and position of the scene root, and the materials, are
\* not part of the state modelled); line 260 activates the model.
CacheScene(t, modelId, model) ==
    LET t1 == findAndMapBones([t EXCEPT !.bones = EmptyMap,
                                        !.hasSkeleton = FALSE,
                                        !.restPose = EmptyMap,
                                        !.tablesOf = NULL], model)
    IN [t1 EXCEPT
          !.rootVisible = Put(t1.rootVisible, model.serial, FALSE),
          !.boneQuaternion =
              [r \in (DOMAIN t1.boneQuaternion)
                       \cup {<<model.serial, i>> : i \in 1..Len(model.nodes)} |->
                  IF r \in DOMAIN t1.boneQuaternion THEN t1.boneQuaternion[r]
                  ELSE model.nodes[r[2]].quaternion],
          !.bonePosition =
              [r \in (DOMAIN t1.bonePosition)
                       \cup {<<model.serial, i>> : i \in 1..Len(model.nodes)} |->
                  IF r \in DOMAIN t1.bonePosition THEN t1.bonePosition[r]
                  ELSE model.nodes[r[2]].position],
          !.modelCache = Put(t1.modelCache, modelId, model.serial),
          !.skeletonCache = Put(t1.skeletonCache, modelId,
              [bones |-> t1.bones, hasSkeleton |-> t1.hasSkeleton,
               restPose |-> t1.restPose])]

\* The try body without line 260: the loaded model is cached, not activated.
loadModelAsyncBody_NoActivate(t, modelId, model) == CacheScene(t, modelId, model)

\* The try body activating the loaded model only when no model is active
\* yet; otherwise the active model stays.
loadModelAsyncBody_KeepActive(t, modelId, model) ==
    IF t.isLoaded
    THEN _activateModel(CacheScene(t, modelId, model), t.currentModelId)
    ELSE _activateModel(CacheScene(t, modelId, model), modelId)

loadModelAsyncBody(t, modelId, model) ==
    _activateModel(CacheScene(t, modelId, model), modelId)

\* ------------------------------------------------- the procedural rig
\* The createBone calls of _createProceduralModel (lines 384-428) in order:
\* the canonical name and the x of the offset, in hundredths.
ProceduralBones == <<
    <<"hips", 0>>, <<"spine", 0>>, <<"chest", 0>>, <<"neck", 0>>, <<"head", 0>>,
    <<"leftShoulder", -20>>, <<"leftUpperArm", 0>>, <<"leftForeArm", 0>>,
    <<"rightShoulder", 20>>, <<"rightUpperArm", 0>>, <<"rightForeArm", 0>>,
    <<"leftHand", 0>>, <<"rightHand", 0>>,
    <<"leftUpLeg", -10>>, <<"leftLeg", 0>>, <<"leftFoot", 0>>,
    <<"rightUpLeg", 10>>, <<"rightLeg", 0>>, <<"rightFoot", 0>> >>

\* The roots built by _createProceduralModel so far: they carry negative
\* serials, the loaded scenes the positive serials of their loads.
ProceduralRoots(t) == {s \in DOMAIN t.rootVisible : s < 0}

\* createBone storing the chest group under the name 'torso'.
createBone_Torso(t, serial, k) ==
    LET name == IF ProceduralBones[k][1] = "chest" THEN "torso" ELSE ProceduralBones[k][1]
        ref == <<serial, k>>
    IN [t EXCEPT !.bones = Put(t.bones, name, ref),
                 !.restPose = Put(t.restPose, name,
                                  [position |-> ProceduralBones[k][2], quaternion |-> 0]),
                 !.boneQuaternion = Put(t.boneQuaternion, ref, 0),
                 !.bonePosition = Put(t.bonePosition, ref, ProceduralBones[k][2])]

\* createBone(name, ...) for the k-th call (lines 306-381): a new group at
\* the offset with the identity orientation, stored under name in the two
\* working tables without any test.
createBone(t, serial, k) ==
    LET name == ProceduralBones[k][1]
        ref == <<serial, k>>
    IN [t EXCEPT !.bones = Put(t.bones, name, ref),
                 !.restPose = Put(t.restPose, name,
                                  [position |-> ProceduralBones[k][2], quaternion |-> 0]),
                 !.boneQuaternion = Put(t.boneQuaternion, ref, 0),
                 !.bonePosition = Put(t.bonePosition, ref, ProceduralBones[k][2])]

RECURSIVE createBones(_, _, _)
createBones(t, serial, k) ==
    IF k > Len(ProceduralBones) THEN t
    ELSE createBones(createBone(t, serial, k), serial, k + 1)

\* Lines 402-403 and 409-410: the upper arm is turned by a quarter turn
\* about z and its rest-pose snapshot takes the turned orientation.
TurnUpperArm(t, name, angle) ==
    [t EXCEPT !.boneQuaternion = [t.boneQuaternion EXCEPT ![t.bones[name]] = angle],
              !.restPose = [t.restPose EXCEPT ![name].quaternion = angle]]

\* _createProceduralModel(modelId): fresh working tables (lines 274-276),
\* the bones, the cache entries (lines 447-455) and the activation (line 457).
_createProceduralModel(t, modelId, serial) ==
    LET t0 == [t EXCEPT !.bones = EmptyMap, !.restPose = EmptyMap,
                        !.hasSkeleton = TRUE, !.tablesOf = NULL]
        t1 == createBones(t0, serial, 1)
        t2 == TurnUpperArm(TurnUpperArm(t1, "leftUpperArm", -(PI \div 2)),
                           "rightUpperArm", PI \div 2)
        t3 == [t2 EXCEPT
                 !.rootVisible = Put(t2.rootVisible, serial, FALSE),
                 !.modelCache = Put(t2.modelCache, modelId, serial),
                 !.skeletonCache = Put(t2.skeletonCache, modelId,
                     [bones |-> t2.bones, hasSkeleton |-> TRUE, restPose |-> t2.restPose])]
    IN _activateModel(t3, modelId)

setVisibleBody(t, visible) ==
    LET t1 == HideAllCached([t EXCEPT !.groupVisible = visible, !.visible = visible])
    IN IF t1.model # 0 /\ visible
       THEN [t1 EXCEPT !.rootVisible = [t1.rootVisible EXCEPT ![t1.model] = TRUE]]
       ELSE t1

\* ------------------------------------------------------------ retargeting
Sign(a) == IF a > 0 THEN 1 ELSE IF a < 0 THEN -1 ELSE 0

LANDMARKS ==
    [NOSE |-> 0, LEFT_EYE |-> 2, RIGHT_EYE |-> 5, LEFT_EAR |-> 7, RIGHT_EAR |-> 8,
     LEFT_SHOULDER |-> 11, RIGHT_SHOULDER |-> 12, LEFT_ELBOW |-> 13, RIGHT_ELBOW |-> 14,
     LEFT_WRIST |-> 15, RIGHT_WRIST |-> 16, LEFT_HIP |-> 23, RIGHT_HIP |-> 24,
     LEFT_KNEE |-> 25, RIGHT_KNEE |-> 26, LEFT_ANKLE |-> 27, RIGHT_ANKLE |-> 28,
     LEFT_INDEX |-> 19, RIGHT_INDEX |-> 20, LEFT_FOOT_INDEX |-> 31, RIGHT_FOOT_INDEX |-> 32]

\* The indices of a landmark array.
LandmarkIndices == 0..(LandmarkCount - 1)

\* getPos: the x of the position, Absent for null.
getPos(landmarks, index) ==
    IF landmarks[index] = Absent THEN Absent
    ELSE IF landmarks[index] = NaN THEN NaN
    ELSE (LM_ONE - 2 * landmarks[index])

\* { ...l }: the copy of an entry; the copy of null is {}, whose x is
\* undefined and gives NaN in every sum.
CopyLandmark(l) == IF l = Absent THEN NaN ELSE l

\* prev.x + (l.x - prev.x) * this.smoothing
SmoothCoordinate(prev, l) ==
    IF prev = NaN \/ l = NaN THEN NaN ELSE prev + ((l - prev) \div SmoothingInverse)

\* smoothLandmarks.  Reading l.x of a null entry throws a TypeError before
\* previousLandmarks is assigned.
smoothLandmarks(t, landmarks) ==
    IF ~t.hasPreviousLandmarks
    THEN [this |-> [t EXCEPT !.hasPreviousLandmarks = TRUE,
                             !.previousLandmarks =
                                 [i \in LandmarkIndices |-> CopyLandmark(landmarks[i])]],
          smoothed |-> landmarks, threw |-> FALSE]
    ELSE IF \E i \in LandmarkIndices : landmarks[i] = Absent
    THEN [this |-> t, smoothed |-> landmarks, threw |-> TRUE]
    ELSE LET smoothed == [i \in LandmarkIndices |->
                             SmoothCoordinate(t.previousLandmarks[i], landmarks[i])]
         IN [this |-> [t EXCEPT !.previousLandmarks = smoothed],
             smoothed |-> smoothed, threw |-> FALSE]

\* The shorter signed arc from angle a to angle b.
ShortArc(a, b) ==
    LET d == b - a
    IN IF d > PI THEN d - 2 * PI ELSE IF d < -PI THEN d + 2 * PI ELSE d

\* Quaternion.slerp(target, this.smoothing)
Slerp(prev, target) ==
    IF prev = NaN \/ target = NaN THEN NaN ELSE prev + (ShortArc(prev, target) \div SmoothingInverse)

\* Quaternion.multiply
Multiply(a, b) == IF a = NaN \/ b = NaN THEN NaN ELSE a + b

\* The sign of the x of normalize(to - from) for two positions.
Direction(from, to) == IF from = NaN \/ to = NaN THEN NaN ELSE Sign(to - from)

\* setFromUnitVectors(defaultDir, dir) for defaultDir = (+-1, 0, 0): identity
\* for the same or the zero direction, a half turn for the opposite one.
ArmQuat(defaultX, dir) ==
    IF dir = NaN THEN NaN ELSE IF dir = -defaultX THEN PI ELSE 0

\* setFromUnitVectors(defaultDir, dir) for a defaultDir perpendicular to x:
\* a quarter turn whose sense is the sign of dir, identity for the zero one.
QuarterQuat(dir) == IF dir = NaN THEN NaN ELSE dir * (PI \div 2)

\* applyBoneRotation without the clone() of line 886: the product is computed
\* in the rest-pose snapshot itself.
applyBoneRotation_NoClone(t, boneName, targetQuat) ==
    IF ~Has(t.bones, boneName) THEN t
    ELSE LET bone == t.bones[boneName]
             prev == IF Has(t.previousBoneRotations, boneName)
                     THEN t.previousBoneRotations[boneName]
                     ELSE t.boneQuaternion[bone]
             smoothed == Slerp(prev, targetQuat)
             final == IF Has(t.restPose, boneName)
                      THEN Multiply(t.restPose[boneName].quaternion, smoothed)
                      ELSE smoothed
         IN [t EXCEPT !.boneQuaternion = [t.boneQuaternion EXCEPT ![bone] = final],
                      !.restPose = IF Has(t.restPose, boneName)
                                   THEN [t.restPose EXCEPT ![boneName].quaternion = final]
                                   ELSE t.restPose,
                      !.previousBoneRotations = Put(t.previousBoneRotations, boneName, smoothed)]

applyBoneRotation(t, boneName, targetQuat) ==
    IF ~Has(t.bones, boneName) THEN t
    ELSE LET bone == t.bones[boneName]
             prev == IF Has(t.previousBoneRotations, boneName)
                     THEN t.previousBoneRotations[boneName]
                     ELSE t.boneQuaternion[bone]
             smoothed == Slerp(prev, targetQuat)
             final == IF Has(t.restPose, boneName)
                      THEN Multiply(t.restPose[boneName].quaternion, smoothed)
                      ELSE smoothed
         IN [t EXCEPT !.boneQuaternion = [t.boneQuaternion EXCEPT ![bone] = final],
                      !.previousBoneRotations = Put(t.previousBoneRotations, boneName, smoothed)]

\* Lines 672-675: rotDiff = targetRotY - previousRotation, wrapped once by a
\* full turn when it is beyond half a turn; previousRotation += rotDiff *
\* this.smoothing.
SmoothYaw(previousRotation, targetRotY) ==
    IF targetRotY = NaN \/ previousRotation = NaN THEN NaN
    ELSE previousRotation + (ShortArc(previousRotation, targetRotY) \div SmoothingInverse)

Sum4(a, b, c, d) == IF NaN \in {a, b, c, d} THEN NaN ELSE a + b + c + d

updatePosition(t, landmarks) ==
    LET leftHip == getPos(landmarks, LANDMARKS.LEFT_HIP)
        rightHip == getPos(landmarks, LANDMARKS.RIGHT_HIP)
        leftShoulder == getPos(landmarks, LANDMARKS.LEFT_SHOULDER)
        rightShoulder == getPos(landmarks, LANDMARKS.RIGHT_SHOULDER)
        \* bodyCenter.x * HORIZONTAL_MOVEMENT_SCALE = 4.5 * sum / 4
        scaledPosition == LET sum == Sum4(leftHip, rightHip, leftShoulder, rightShoulder)
                          IN IF sum = NaN THEN NaN ELSE 9 * sum
        shoulderDir == Direction(leftShoulder, rightShoulder)
        \* atan2(forward.x, forward.z) with forward = (-0, 0, shoulderDir.x)
        targetRotY == IF shoulderDir = NaN THEN NaN
                      ELSE IF shoulderDir < 0 THEN -PI ELSE 0
        position == IF t.groupPosition = NaN \/ scaledPosition = NaN THEN NaN
                    ELSE t.groupPosition + ((scaledPosition - t.groupPosition) \div SmoothingInverse)
        rotation == SmoothYaw(t.previousRotation, targetRotY)
    IN IF Absent \in {leftHip, rightHip, leftShoulder, rightShoulder} THEN t
       ELSE [t EXCEPT !.targetPosition = scaledPosition,
                      !.groupPosition = position,
                      !.previousRotation = rotation,
                      !.groupRotationY = rotation]


RECURSIVE ApplyToEach(_, _, _, _)
ApplyToEach(t, boneNames, k, targetQuat) ==
    IF k > Len(boneNames) THEN t
    ELSE ApplyToEach(applyBoneRotation(t, boneNames[k], targetQuat), boneNames, k + 1, targetQuat)

updateSpine(t, landmarks) ==
    LET leftHip == getPos(landmarks, LANDMARKS.LEFT_HIP)
        rightHip == getPos(landmarks, LANDMARKS.RIGHT_HIP)
        leftShoulder == getPos(landmarks, LANDMARKS.LEFT_SHOULDER)
        rightShoulder == getPos(landmarks, LANDMARKS.RIGHT_SHOULDER)
        \* spineDir.x: the sign of shoulderCenter.x - hipCenter.x
        spineDir == IF NaN \in {leftHip, rightHip, leftShoulder, rightShoulder} THEN NaN
                    ELSE Sign((leftShoulder + rightShoulder) - (leftHip + rightHip))
        \* tiltZ * 0.3 = -asin(spineDir.x) * 0.5 * 0.3, asin(+-1) = +-PI/2
        targetQuat == IF spineDir = NaN THEN NaN ELSE -spineDir * ((3 * PI) \div 40)
    IN IF Absent \in {leftHip, rightHip, leftShoulder, rightShoulder} THEN t
       ELSE ApplyToEach(t, <<"spine", "spine1", "spine2", "chest">>, 1, targetQuat)

updateHead(t, landmarks) ==
    LET nose == getPos(landmarks, LANDMARKS.NOSE)
        leftShoulder == getPos(landmarks, LANDMARKS.LEFT_SHOULDER)
        rightShoulder == getPos(landmarks, LANDMARKS.RIGHT_SHOULDER)
        \* headDir.x: the sign of nose.x - shoulderCenter.x
        headDir == IF NaN \in {nose, leftShoulder, rightShoulder} THEN NaN
                   ELSE Sign(2 * nose - (leftShoulder + rightShoulder))
        \* tiltZ = -asin(headDir.x) * 0.3
        tiltZ == IF headDir = NaN THEN NaN ELSE -headDir * ((3 * PI) \div 20)
        t1 == applyBoneRotation(t, "head", tiltZ)
    IN IF Absent \in {nose, leftShoulder, rightShoulder} THEN t
       ELSE applyBoneRotation(t1, "neck", IF tiltZ = NaN THEN NaN ELSE tiltZ \div 2)

updateArm(t, landmarks, side) ==
    LET isLeft == side = "left"
        shoulder == getPos(landmarks, IF isLeft THEN LANDMARKS.LEFT_SHOULDER ELSE LANDMARKS.RIGHT_SHOULDER)
        elbow == getPos(landmarks, IF isLeft THEN LANDMARKS.LEFT_ELBOW ELSE LANDMARKS.RIGHT_ELBOW)
        wrist == getPos(landmarks, IF isLeft THEN LANDMARKS.LEFT_WRIST ELSE LANDMARKS.RIGHT_WRIST)
        indexFinger == getPos(landmarks, IF isLeft THEN LANDMARKS.LEFT_INDEX ELSE LANDMARKS.RIGHT_INDEX)
        defaultDir == IF isLeft THEN -1 ELSE 1
        t1 == applyBoneRotation(t, IF isLeft THEN "leftUpperArm" ELSE "rightUpperArm",
                                ArmQuat(defaultDir, Direction(shoulder, elbow)))
        t2 == applyBoneRotation(t1, IF isLeft THEN "leftForeArm" ELSE "rightForeArm",
                                ArmQuat(defaultDir, Direction(elbow, wrist)))
    IN IF Absent \in {shoulder, elbow, wrist} THEN t
       ELSE IF indexFinger = Absent THEN t2
       ELSE applyBoneRotation(t2, IF isLeft THEN "leftHand" ELSE "rightHand",
                              ArmQuat(defaultDir, Direction(wrist, indexFinger)))

updateLeg(t, landmarks, side) ==
    LET isLeft == side = "left"
        hip == getPos(landmarks, IF isLeft THEN LANDMARKS.LEFT_HIP ELSE LANDMARKS.RIGHT_HIP)
        knee == getPos(landmarks, IF isLeft THEN LANDMARKS.LEFT_KNEE ELSE LANDMARKS.RIGHT_KNEE)
        ankle == getPos(landmarks, IF isLeft THEN LANDMARKS.LEFT_ANKLE ELSE LANDMARKS.RIGHT_ANKLE)
        foot == getPos(landmarks, IF isLeft THEN LANDMARKS.LEFT_FOOT_INDEX ELSE LANDMARKS.RIGHT_FOOT_INDEX)
        t1 == applyBoneRotation(t, IF isLeft THEN "leftUpLeg" ELSE "rightUpLeg",
                                QuarterQuat(Direction(hip, knee)))
        t2 == applyBoneRotation(t1, IF isLeft THEN "leftLeg" ELSE "rightLeg",
                                QuarterQuat(Direction(knee, ankle)))
    IN IF Absent \in {hip, knee, ankle} THEN t
       ELSE IF foot = Absent THEN t2
       ELSE applyBoneRotation(t2, IF isLeft THEN "leftFoot" ELSE "rightFoot",
                              QuarterQuat(Direction(ankle, foot)))

updateSkeleton(t, landmarks) ==
    updateLeg(updateLeg(updateArm(updateArm(updateHead(updateSpine(t, landmarks), landmarks),
        landmarks, "left"), landmarks, "right"), landmarks, "left"), landmarks, "right")

\* update(landmarks) for a landmark array; outcome says how the call ended.
updateBody(t, landmarks) ==
    IF ~t.isLoaded \/ t.model = 0
    THEN [this |-> t, outcome |-> "skipped"]
    ELSE LET sm == smoothLandmarks(t, landmarks)
             t1 == updatePosition(sm.this, sm.smoothed)
         IN IF sm.threw THEN [this |-> t, outcome |-> "TypeError"]
            ELSE IF t1.hasSkeleton /\ DOMAIN t1.bones # {}
            THEN [this |-> updateSkeleton(t1, sm.smoothed), outcome |-> "returned"]
            ELSE [this |-> t1, outcome |-> "returned"]

\* ------------------------------------------------------------- the inputs
\* The model ids loadModel is called with; "santa" is not in AVAILABLE_MODELS.
RequestedIds == {"angel_devil", "gingy", "santa"}


\* The ids _createProceduralModel has materials for (lines 281-296).
ProceduralIds == {"santa", "goblin"}

\* The model ids the frame loop switches between.
FrameModelIds == {"angel_devil", "gingy"}

\* Two complete frames, as the x of each landmark in twentieths (0.05) of the
\* image width; the entries the code never reads are at the centre.
PoseATwentieths ==
    [i \in LandmarkIndices |->
        CASE i = 0 -> 10
          [] i = 11 -> 12 [] i = 12 -> 8
          [] i = 13 -> 14 [] i = 14 -> 6
          [] i = 15 -> 15 [] i = 16 -> 5
          [] i = 19 -> 16 [] i = 20 -> 4
          [] i = 23 -> 11 [] i = 24 -> 9
          [] i = 25 -> 11 [] i = 26 -> 9
          [] i = 27 -> 11 [] i = 28 -> 9
          [] i = 31 -> 12 [] i = 32 -> 8
          [] OTHER -> 10]

PoseBTwentieths ==
    [i \in LandmarkIndices |->
        CASE i = 0 -> 12
          [] i = 11 -> 12 [] i = 12 -> 8
          [] i = 13 -> 10 [] i = 14 -> 10
          [] i = 15 -> 8 [] i = 16 -> 12
          [] i = 19 -> 9 [] i = 20 -> 11
          [] i = 23 -> 10 [] i = 24 -> 8
          [] i = 25 -> 12 [] i = 26 -> 6
          [] i = 27 -> 11 [] i = 28 -> 7
          [] i = 31 -> 10 [] i = 32 -> 8
          [] OTHER -> 10]

PoseNames == {"A", "B"}
NoneMissing == LandmarkCount
MissingIndices == {0, 16, 23}

\* The landmark array of a frame: the pose, with the entry at index missing
\* (if any) null.
Frame(pose, missing) ==
    [i \in LandmarkIndices |->
        IF i = missing THEN Absent
        ELSE Tick * (IF pose = "A" THEN PoseATwentieths[i] ELSE PoseBTwentieths[i])]

\* The raw bone names of the scenes a single traversal is run on: a
\* vendor-rig prefix, plain names, and a suffixed name.
MapNames ==
    {<<"H","i","p","s">>, <<"S","p","i","n","e">>, <<"s","p","i","n","e","_","I","K">>,
     <<"m","i","x","a","m","o","r","i","g",":","L","e","f","t","A","r","m">>,
     <<"m","i","x","a","m","o","r","i","g",":","L","e","f","t","F","o","r","e","A","r","m">>}

\* How the bones of a scene are reached: as plain bone nodes only, or also
\* through the skeleton of a skinned mesh that precedes them, which lists
\* them in hierarchy order or in the opposite order.
MeshKinds == {"none", "forward", "reverse"}

\* A bone node: its position and orientation tell the bones of a scene apart.
MapBoneNode(name, k) ==
    [name |-> name, isBone |-> TRUE, isSkinnedMesh |-> FALSE,
     skeleton |-> [present |-> FALSE, bones |-> <<>>],
     position |-> k, quaternion |-> k * Tick]

\* The node list of the scene with bones named names[1], names[2], ...
MapScene(names, meshKind) ==
    LET n == Len(names)
    IN IF meshKind = "none"
       THEN [k \in 1..n |-> MapBoneNode(names[k], k)]
       ELSE <<[name |-> <<"B","o","d","y">>, isBone |-> FALSE, isSkinnedMesh |-> TRUE,
               skeleton |-> [present |-> TRUE,
                             bones |-> [k \in 1..n |->
                                          IF meshKind = "forward" THEN k + 1 ELSE n + 2 - k]],
               position |-> 0, quaternion |-> 0]>>
            \o [k \in 1..n |-> MapBoneNode(names[k], k)]

MapScenes ==
    {MapScene(names, meshKind) : names \in [1..MaxMapBones -> MapNames], meshKind \in MeshKinds}

\* The target yaws of the yaw smoothing: the multiples of a tenth of a turn
\* in [-PI, PI].
YawTargets == {k * (PI \div 5) : k \in -5..5}

\* ------------------------------------------------------------ the machine
Init ==
    /\ this = Constructed
    /\ mq = <<>>
    /\ loads = <<>>
    /\ calls = <<>>
    /\ updates = <<>>
    /\ driven = SkeletonDrivenConstructed
    /\ gltfScene = <<>>
    /\ cursor = 0

\* The outcome of a finished call as its caller sees it.
Returned(c, t) ==
    [c EXCEPT !.status = "returned", !.active = t.currentModelId,
              !.seen = IF Has(t.modelCache, c.id) THEN t.modelCache[c.id] ELSE 0,
              !.model = t.model]

\* A task: loadModel(modelId) is called and runs to its first await or return.
loadModel(modelId) ==
    /\ mq = <<>>
    /\ Len(calls) < MaxCalls
    /\ LET n == Len(loads) + 1
           r == loadModelSync(this, modelId, n)
           c == [id |-> modelId, path |-> r.path, status |-> "pending",
                 load |-> IF r.path = "starter" THEN n
                          ELSE IF r.path = "waiter" THEN this.loadingPromises[modelId]
                          ELSE 0,
                 active |-> NULL, seen |-> 0, model |-> 0]
       IN /\ this' = r.this
          /\ loads' = IF r.path = "starter"
                      THEN Append(loads, [id |-> modelId, state |-> "pending",
                                          scene |-> NULL])
                      ELSE loads
          /\ calls' = Append(calls, IF r.path \in {"starter", "waiter"} THEN c
                                    ELSE Returned(c, r.this))
    /\ UNCHANGED <<mq, updates, driven, gltfScene, cursor>>

\* A task: the loader calls resolve(gltf) for load n.
LoaderOnLoad(n, scene) ==
    /\ mq = <<>>
    /\ loads[n].state = "pending"
    /\ loads' = [loads EXCEPT ![n].state = "onLoad", ![n].scene = scene]
    /\ mq' = <<[kind |-> "asyncBody", n |-> n]>>
    /\ UNCHANGED <<this, calls, updates, driven, gltfScene, cursor>>

\* A task: the loader calls reject(error) for load n.
LoaderOnError(n) ==
    /\ mq = <<>>
    /\ loads[n].state = "pending"
    /\ loads' = [loads EXCEPT ![n].state = "onError"]
    /\ mq' = <<[kind |-> "asyncBody", n |-> n]>>
    /\ UNCHANGED <<this, calls, updates, driven, gltfScene, cursor>>

\* The callers awaiting the promise of load n, in the order they attached.
RECURSIVE Reactions(_, _, _)
Reactions(cs, n, i) ==
    IF i > Len(cs) THEN <<>>
    ELSE (IF cs[i].load = n /\ cs[i].status = "pending"
          THEN <<[kind |-> cs[i].path, n |-> i]>> ELSE <<>>)
         \o Reactions(cs, n, i + 1)

\* _loadModelAsync with lines 241-243 ahead of the await: a load that fails
\* has already reset the working tables.
loadModelAsyncResume_ResetOnFailure(t, modelId, model, ok) ==
    IF ok THEN loadModelAsyncBody(t, modelId, model)
    ELSE [t EXCEPT !.bones = EmptyMap, !.hasSkeleton = FALSE,
                   !.restPose = EmptyMap, !.tablesOf = NULL]

\* _loadModelAsync from its await on: the try body when the loader resolved,
\* the catch block (log and rethrow, no assignment) when it rejected.
loadModelAsyncResume(t, modelId, model, ok) ==
    IF ok THEN loadModelAsyncBody(t, modelId, model) ELSE t

\* A microtask: _loadModelAsync resumes after its await and runs to its end;
\* its promise settles and the callers awaiting it are queued.
ResumeLoadModelAsync ==
    /\ mq # <<>>
    /\ Head(mq).kind = "asyncBody"
    /\ LET n == Head(mq).n
           ok == loads[n].state = "onLoad"
       IN /\ this' = loadModelAsyncResume(this, loads[n].id,
                                        [serial |-> n, nodes |-> SceneNodes(loads[n].scene)],
                                        ok)
          /\ loads' = [loads EXCEPT ![n].state = IF ok THEN "fulfilled" ELSE "rejected"]
          /\ mq' = Tail(mq) \o Reactions(calls, n, 1)
    /\ UNCHANGED <<calls, updates, driven, gltfScene, cursor>>

\* loadModel without its finally block: the entry is never deleted.
loadModelFinally_Keep(t, modelId) == t

\* delete this.loadingPromises[modelId] in the finally block of loadModel
loadModelFinally(t, modelId) ==
    [t EXCEPT !.loadingPromises = Delete(t.loadingPromises, modelId)]

\* A microtask: the call that started the load resumes at line 200.
ResumeStarter ==
    /\ mq # <<>>
    /\ Head(mq).kind = "starter"
    /\ LET i == Head(mq).n
           c == calls[i]
           t == loadModelFinally(this, c.id)
       IN /\ this' = t
          /\ calls' = [calls EXCEPT ![i] =
                          IF loads[c.load].state = "fulfilled" THEN Returned(c, t)
                          ELSE [c EXCEPT !.status = "threw"]]
    /\ mq' = Tail(mq)
    /\ UNCHANGED <<loads, updates, driven, gltfScene, cursor>>

\* The attached call activating whatever the outcome of the load was.
loadModelAfterWait_IgnoreFailure(t, modelId, ok) == _activateModel(t, modelId)

\* A call attached to a load, from its await at line 175 on: it activates
\* the model when the awaited promise fulfilled; a rejection leaves the call
\* at the await.
loadModelAfterWait(t, modelId, ok) == IF ok THEN _activateModel(t, modelId) ELSE t

\* A microtask: a call attached to a load in flight resumes at line 175.
ResumeWaiter ==
    /\ mq # <<>>
    /\ Head(mq).kind = "waiter"
    /\ LET i == Head(mq).n
           c == calls[i]
           ok == loads[c.load].state = "fulfilled"
           t == loadModelAfterWait(this, c.id, ok)
       IN /\ this' = t
          /\ calls' = [calls EXCEPT ![i] =
                          IF ok THEN Returned(c, t) ELSE [c EXCEPT !.status = "threw"]]
    /\ mq' = Tail(mq)
    /\ UNCHANGED <<loads, updates, driven, gltfScene, cursor>>

\* A task: setVisible(visible).
setVisible(visible) ==
    /\ mq = <<>>
    /\ this' = setVisibleBody(this, visible)
    /\ UNCHANGED <<mq, loads, calls, updates, driven, gltfScene, cursor>>

\* A task: update(landmarks) with the landmarks of a frame.
update(pose, missing) ==
    /\ mq = <<>>
    /\ Len(updates) < MaxFrames
    /\ LET r == updateBody(this, Frame(pose, missing))
       IN /\ this' = r.this
          /\ updates' = Append(updates, [pose |-> pose, missing |-> missing,
                                         outcome |-> r.outcome])
    /\ UNCHANGED <<mq, loads, calls, driven, gltfScene, cursor>>

\* The asset cache under loadModel calls, load completions and setVisible.
Next ==
    \/ \E modelId \in RequestedIds : loadModel(modelId)
    \/ \E n \in 1..Len(loads) : \E scene \in SceneNames : LoaderOnLoad(n, scene)
    \/ \E n \in 1..Len(loads) : LoaderOnError(n)
    \/ ResumeLoadModelAsync
    \/ ResumeStarter
    \/ ResumeWaiter
    \/ \E visible \in BOOLEAN : setVisible(visible)

Spec == Init /\ [][Next]_vars

\* The frame loop: update calls between a few loadModel calls and their
\* load completions.
FrameNext ==
    \/ \E modelId \in FrameModelIds : Len(calls) < MaxFrameCalls /\ loadModel(modelId)
    \/ \E n \in 1..Len(loads) : \E scene \in SceneNames : LoaderOnLoad(n, scene)
    \/ \E n \in 1..Len(loads) : LoaderOnError(n)
    \/ ResumeLoadModelAsync
    \/ ResumeStarter
    \/ ResumeWaiter
    \/ \E pose \in PoseNames : \E missing \in {NoneMissing} \cup MissingIndices :
            update(pose, missing)

FrameSpec == Init /\ [][FrameNext]_vars

\* The whole public surface of the character: loadModel, load completions,
\* update and setVisible.
LifeNext ==
    \/ FrameNext
    \/ \E visible \in BOOLEAN : setVisible(visible)

LifeSpec == Init /\ [][LifeNext]_vars

\* A task: _createProceduralModel(modelId) is called.
createProceduralModel(modelId) ==
    /\ mq = <<>>
    /\ Cardinality(ProceduralRoots(this)) < MaxBuilds
    /\ this' = _createProceduralModel(this, modelId,
                                      -(Cardinality(ProceduralRoots(this)) + 1))
    /\ UNCHANGED <<mq, loads, calls, updates, driven, gltfScene, cursor>>

\* The two ways a skeleton asset comes to be: loaded scenes that are mapped,
\* and rigs built by the procedural builder.
RigNext ==
    \/ \E modelId \in FrameModelIds : Len(calls) < MaxFrameCalls /\ loadModel(modelId)
    \/ \E n \in 1..Len(loads) : \E scene \in SceneNames : LoaderOnLoad(n, scene)
    \/ \E n \in 1..Len(loads) : LoaderOnError(n)
    \/ ResumeLoadModelAsync
    \/ ResumeStarter
    \/ ResumeWaiter
    \/ \E modelId \in ProceduralIds : createProceduralModel(modelId)

RigSpec == Init /\ [][RigNext]_vars

\* The yaw smoothing of updatePosition (lines 672-676) under a sequence of
\* target yaws.  updates keeps the last call only; a target is taken when
\* rotDiff * this.smoothing is a whole number of angle units.
YawInit == Init

updateYaw(targetRotY) ==
    /\ (IF updates = <<>> THEN 0 ELSE updates[1].frame) < MaxYawFrames
    /\ ShortArc(this.previousRotation, targetRotY) % SmoothingInverse = 0
    /\ LET rotation == SmoothYaw(this.previousRotation, targetRotY)
       IN this' = [this EXCEPT !.previousRotation = rotation, !.groupRotationY = rotation]
    /\ updates' = <<[targetRotY |-> targetRotY, before |-> this.previousRotation,
                     frame |-> (IF updates = <<>> THEN 0 ELSE updates[1].frame) + 1]>>
    /\ UNCHANGED <<mq, loads, calls, driven, gltfScene, cursor>>

YawNext == \E targetRotY \in YawTargets : updateYaw(targetRotY)

YawSpec == YawInit /\ [][YawNext]_vars

\* One traversal of a scene by findAndMapBones of a fresh ModelCharacter and
\* by findSkeleton of a fresh SkeletonDrivenCharacter.
MapInit ==
    /\ this = Constructed
    /\ mq = <<>>
    /\ loads = <<>>
    /\ calls = <<>>
    /\ updates = <<>>
    /\ driven = SkeletonDrivenConstructed
    /\ gltfScene \in MapScenes
    /\ cursor = 0

\* The traverse callback is called for the next object of the scene.
TraverseCallback ==
    /\ cursor < Len(gltfScene)
    /\ LET model == [serial |-> 1, nodes |-> gltfScene]
       IN /\ this' = VisitObject(this, model, cursor + 1)
          /\ driven' = findSkeletonVisit(driven, model, cursor + 1)
    /\ cursor' = cursor + 1
    /\ UNCHANGED <<mq, loads, calls, updates, gltfScene>>

MapNext == TraverseCallback

MapSpec == MapInit /\ [][MapNext]_vars

\* ------------------------------------------------- derived notions
LoadsOf(id) == {n \in 1..Len(loads) : loads[n].id = id}
Unsettled(n) == loads[n].state \in {"pending", "onLoad", "onError"}
InFlight(id) == {n \in LoadsOf(id) : Unsettled(n)}
Fulfilled(id) == {n \in LoadsOf(id) : loads[n].state = "fulfilled"}
Rejected(id) == {n \in LoadsOf(id) : loads[n].state = "rejected"}
VisibleRoots == {s \in DOMAIN this.rootVisible : this.rootVisible[s]}
Idle == mq = <<>>
CallMade(id) == Len(calls') = Len(calls) + 1 /\ calls'[Len(calls')].id = id
LastCall == calls'[Len(calls')]
CallsOn(n) == {i \in 1..Len(calls) : calls[i].load = n}

\* The load state of a model id as the cache records it.
LoadState(id) ==
    IF Has(this.loadingPromises, id) THEN "Loading"
    ELSE IF Has(this.modelCache, id) THEN "Ready"
    ELSE IF LoadsOf(id) # {} THEN "Failed"
    ELSE "NotRequested"

\* ---------------------------------------------------------------- claims

\* C1: for an id of AVAILABLE_MODELS that is neither cached nor loading, the
\* first loadModel(id) invokes the loader once, and every loadModel(id) made
\* while that load is unsettled invokes no loader and attaches to it; the
\* callers of one load that returned all see the one cached asset of the id.
C1_OneLoaderInvocation ==
    /\ [](\A n \in 1..Len(loads) : \A i \in CallsOn(n) :
            calls[i].status = "returned" =>
                /\ calls[i].seen = n
                /\ Has(this.modelCache, calls[i].id) /\ this.modelCache[calls[i].id] = n
                /\ Has(this.skeletonCache, calls[i].id))
    /\ [][\A id \in KnownIds :
            (CallMade(id) /\ ~Has(this.modelCache, id)) =>
                IF InFlight(id) = {}
                THEN /\ Len(loads') = Len(loads) + 1
                     /\ loads'[Len(loads')].id = id
                     /\ LastCall.path = "starter"
                ELSE /\ loads' = loads
                     /\ LastCall.path = "waiter"
                     /\ LastCall.load \in InFlight(id)]_vars

\* C1 witness: the call that started a load and a call attached to it have
\* both returned.
C1_Witness ==
    \E i, j \in 1..Len(calls) :
        /\ calls[i].path = "starter" /\ calls[j].path = "waiter"
        /\ calls[i].load = calls[j].load
        /\ calls[i].status = "returned" /\ calls[j].status = "returned"

\* C2: the load state of an id moves only from NotRequested (or, on a retry,
\* from Failed) to Loading and from Loading to Ready or Failed; an id has at
\* most one unsettled load; and between tasks an id has a loadingPromises
\* entry exactly while its load is unsettled, so the entry is gone once the
\* load has settled, with success or with failure.
C2_LoadStateOrder ==
    /\ [](\A id \in KnownIds :
            /\ Cardinality(InFlight(id)) <= 1
            /\ Idle => (Has(this.loadingPromises, id) <=> InFlight(id) # {})
            /\ Has(this.loadingPromises, id) =>
                    /\ this.loadingPromises[id] \in LoadsOf(id)
                    /\ Idle => Unsettled(this.loadingPromises[id]))
    /\ [][\A id \in KnownIds :
            LoadState(id)' # LoadState(id) =>
                <<LoadState(id), LoadState(id)'>> \in
                    {<<"NotRequested", "Loading">>, <<"Failed", "Loading">>,
                     <<"Loading", "Ready">>, <<"Loading", "Failed">>}]_vars

\* C2 witness: one load has failed and one has succeeded, both have settled
\* and no loadingPromises entry is left.
C2_Witness ==
    /\ Idle
    /\ \E n, m \in 1..Len(loads) : loads[n].state = "rejected" /\ loads[m].state = "fulfilled"
    /\ DOMAIN this.loadingPromises = {}

\* C3 as stated: an id that is cached has had exactly one loader invocation.
C3_Original ==
    \A id \in KnownIds : Has(this.modelCache, id) => Cardinality(LoadsOf(id)) = 1

\* C3 amended: a loadModel(id) for a cached id invokes no loader and returns
\* inside the call with id active; a cached id has exactly one fulfilled
\* loader invocation, and every other invocation for it is an earlier one
\* that was rejected.
C3_CachedNeverReloads ==
    /\ [](\A id \in KnownIds : Has(this.modelCache, id) =>
            /\ Fulfilled(id) = {this.modelCache[id]}
            /\ LoadsOf(id) = Fulfilled(id) \cup Rejected(id)
            /\ \A n \in Rejected(id) : n < this.modelCache[id])
    /\ [][\A id \in KnownIds :
            (CallMade(id) /\ Has(this.modelCache, id)) =>
                /\ loads' = loads
                /\ LastCall.status = "returned"
                /\ LastCall.active = id
                /\ this'.currentModelId = id]_vars

\* C3 witness: a call has activated a cached id that was not the active one,
\* and the id was loaded after an earlier load of it had failed.
C3_Witness ==
    \E i \in 1..Len(calls) :
        /\ calls[i].path = "cached" /\ calls[i].status = "returned"
        /\ Rejected(calls[i].id) # {}

\* C4: when a load of id is rejected, every call attached to it ends with
\* the error and activates nothing, no cache entry is stored for id, and
\* once the callers have resumed id is neither cached nor loading, so that
\* the next loadModel(id) starts a fresh load.
C4_FailureNotCached ==
    /\ [](\A n \in 1..Len(loads) : loads[n].state = "rejected" =>
            /\ this.modelCache \in [DOMAIN this.modelCache -> (1..Len(loads)) \ {n}]
            /\ \A i \in CallsOn(n) : calls[i].status # "returned"
            /\ Idle => \A i \in CallsOn(n) : calls[i].status = "threw"
            /\ (Idle /\ Fulfilled(loads[n].id) = {} /\ InFlight(loads[n].id) = {}) =>
                    /\ ~Has(this.modelCache, loads[n].id)
                    /\ ~Has(this.skeletonCache, loads[n].id)
                    /\ loadModelSync(this, loads[n].id, Len(loads) + 1).path = "starter")
    /\ [][(mq # <<>> /\ loads[IF Head(mq).kind = "asyncBody" THEN Head(mq).n
                              ELSE calls[Head(mq).n].load].state \in {"onError", "rejected"}) =>
            /\ this'.model = this.model
            /\ this'.currentModelId = this.currentModelId
            /\ this'.modelCache = this.modelCache
            /\ this'.skeletonCache = this.skeletonCache
            /\ this'.rootVisible = this.rootVisible]_vars

\* C4 witness: a load of an id was rejected, its starter and an attached
\* call both ended with the error, and a later load of the id is cached.
C4_Witness ==
    \E n \in 1..Len(loads) : \E i, j \in CallsOn(n) :
        /\ loads[n].state = "rejected"
        /\ i # j /\ calls[i].status = "threw" /\ calls[j].status = "threw"
        /\ Has(this.modelCache, loads[n].id)

\* C5: every loadModel(id) call for a known id that returned did so with id
\* active: currentModelId = id and model = modelCache[id].
C5_ReturnsActive ==
    \A i \in 1..Len(calls) :
        (calls[i].status = "returned" /\ calls[i].id \in KnownIds) =>
            /\ calls[i].active = calls[i].id
            /\ calls[i].seen # 0
            /\ calls[i].model = calls[i].seen

\* C5 witness: calls have returned through the cache, as the starter of a
\* load and as a call attached to a load.
C5_Witness ==
    \A path \in {"cached", "starter", "waiter"} :
        \E i \in 1..Len(calls) : calls[i].path = path /\ calls[i].status = "returned"

\* C6: at most one scene root is visible, and a visible root is the active
\* model, which is the cache entry of currentModelId.
C6_AtMostOneVisible ==
    /\ Cardinality(VisibleRoots) <= 1
    /\ \A s \in VisibleRoots :
        /\ s = this.model
        /\ Has(this.modelCache, this.currentModelId)
        /\ this.modelCache[this.currentModelId] = s

\* C6 witness: two models are cached, one of them is visible and it was
\* activated from the cache.
C6_Witness ==
    /\ Cardinality(DOMAIN this.modelCache) = 2
    /\ VisibleRoots # {}
    /\ \E i \in 1..Len(calls) : calls[i].path = "cached" /\ calls[i].active = this.currentModelId

\* C7 as stated: between tasks, when the character is visible and a model
\* has been activated, the active model is the one visible root.
C7_Original ==
    (Idle /\ this.visible /\ this.model # 0) => VisibleRoots = {this.model}

\* The landmarks the mapping rule of each bone names (BONE_MAPPING: landmarks,
\* or from and to).
BONE_MAPPING ==
    [spine |-> {23, 24, 11, 12}, spine1 |-> {11, 12}, spine2 |-> {11, 12},
     chest |-> {11, 12}, neck |-> {11, 12, 0}, head |-> {0, 7, 8},
     leftShoulder |-> {11}, leftUpperArm |-> {11, 13}, leftForeArm |-> {13, 15},
     leftHand |-> {15, 17, 19, 21},
     rightShoulder |-> {12}, rightUpperArm |-> {12, 14}, rightForeArm |-> {14, 16},
     rightHand |-> {16, 18, 20, 22},
     leftUpLeg |-> {23, 25}, leftLeg |-> {25, 27}, leftFoot |-> {27, 29, 31},
     rightUpLeg |-> {24, 26}, rightLeg |-> {26, 28}, rightFoot |-> {28, 30, 32}]

\* The landmarks the rule of a bone uses; none for a bone without a rule.
RuleLandmarks(boneName) ==
    IF boneName \in DOMAIN BONE_MAPPING THEN BONE_MAPPING[boneName] ELSE {}

\* This step is an update call.
UpdateStep == Len(updates') = Len(updates) + 1

\* The previous smoothed orientation kept for a bone, Absent for none.
PreviousSmoothed(t, boneName) ==
    IF Has(t.previousBoneRotations, boneName) THEN t.previousBoneRotations[boneName]
    ELSE Absent

\* C8: whenever the active model id changes, the map of previous smoothed
\* bone orientations (previousBoneRotations) is cleared.
C8_Original ==
    [][this'.currentModelId # this.currentModelId
          => DOMAIN this'.previousBoneRotations = {}]_vars

\* C9: update(landmarks) never raises, whatever landmark entries are absent
\* in some frames and present in others; every update call completes normally.
C9_Original ==
    \A i \in 1..Len(updates) : updates[i].outcome # "TypeError"

\* C10: in an update with exactly one landmark absent from an otherwise
\* complete frame, every mapped bone whose rule uses that landmark keeps its
\* orientation and its previous smoothed value, and every other mapped bone
\* receives exactly the orientation the complete frame would have given it.
C10_Original ==
    [][(UpdateStep /\ updates'[Len(updates')].missing # NoneMissing)
          => LET u == updates'[Len(updates')]
                 complete == updateBody(this, Frame(u.pose, NoneMissing)).this
             IN \A boneName \in DOMAIN this.bones :
                    LET bone == this.bones[boneName]
                    IN IF u.missing \in RuleLandmarks(boneName)
                       THEN /\ this'.boneQuaternion[bone] = this.boneQuaternion[bone]
                            /\ PreviousSmoothed(this', boneName) = PreviousSmoothed(this, boneName)
                       ELSE this'.boneQuaternion[bone] = complete.boneQuaternion[bone]]_vars

\* The objects the mapper is called with during the first n callbacks of a
\* traversal, in call order: for a skinned mesh the bones of its skeleton
\* list, then the object itself when it is a bone.
RECURSIVE EncounterOrder(_, _)
EncounterOrder(nodes, n) ==
    IF n = 0 THEN <<>>
    ELSE EncounterOrder(nodes, n - 1)
         \o (IF nodes[n].isSkinnedMesh /\ nodes[n].skeleton.present
             THEN nodes[n].skeleton.bones ELSE <<>>)
         \o (IF nodes[n].isBone THEN <<n>> ELSE <<>>)

\* The first object encountered whose name resolves to standard, 0 for none.
FirstEncountered(nodes, n, mapper, standard) ==
    LET order == EncounterOrder(nodes, n)
        hits == {k \in 1..Len(order) :
                    (IF mapper = "SkeletonDrivenCharacter"
                     THEN DrivenResolvedName(nodes[order[k]].name)
                     ELSE ResolvedName(nodes[order[k]].name)) = standard}
    IN IF hits = {} THEN 0 ELSE order[CHOOSE k \in hits : \A j \in hits : k <= j]

\* Every slot of the ModelCharacter holds the first bone encountered that
\* resolves to it, with that bone's rest pose.
ModelCharacterFirstWins ==
    \A standard \in DOMAIN this.bones :
        LET i == FirstEncountered(gltfScene, cursor, "ModelCharacter", standard)
        IN /\ i # 0
           /\ this.bones[standard] = <<1, i>>
           /\ this.restPose[standard] = [position |-> gltfScene[i].position,
                                         quaternion |-> gltfScene[i].quaternion]

\* The same for the slots of the SkeletonDrivenCharacter.
SkeletonDrivenFirstWins ==
    \A standard \in DOMAIN driven.bones :
        LET i == FirstEncountered(gltfScene, cursor, "SkeletonDrivenCharacter", standard)
        IN /\ i # 0
           /\ driven.bones[standard] = <<1, i>>
           /\ driven.restPose[standard] = [position |-> gltfScene[i].position,
                                           rotation |-> gltfScene[i].quaternion]

\* C11: during one hierarchy traversal every canonical slot keeps the first
\* bone encountered that resolves to it, together with its rest-pose
\* snapshot, for bones reached through a skeleton list and for plain bone
\* nodes, in both mappers (findAndMapBones and findSkeleton).
C11_Original == ModelCharacterFirstWins /\ SkeletonDrivenFirstWins

\* The signed shorter angular path from yaw a to yaw b, in [-PI, PI).
AngularPath(a, b) == ((b - a + PI) % (2 * PI)) - PI

Abs(a) == IF a < 0 THEN -a ELSE a

\* C12: each update changes the smoothed yaw (previousRotation) by at most
\* smoothing x pi in magnitude and moves it along the shorter angular path
\* toward the target, for every sequence of target yaws in [-pi, pi].
C12_Original ==
    [][updates' # updates
          => LET step == this'.previousRotation - this.previousRotation
                 path == AngularPath(this.previousRotation, updates'[1].targetRotY)
             IN /\ Abs(step) * SmoothingInverse <= PI
                /\ \/ Abs(path) = PI
                   \/ (step * path >= 0 /\ Abs(step) <= Abs(path))]_vars

\* The target rotation updateArm solves for the upper arm of a side (lines
\* 781-787) from the landmarks it is given.
UpperArmTarget(landmarks, side) ==
    ArmQuat(IF side = "left" THEN -1 ELSE 1,
            Direction(getPos(landmarks, IF side = "left" THEN LANDMARKS.LEFT_SHOULDER
                                                          ELSE LANDMARKS.RIGHT_SHOULDER),
                      getPos(landmarks, IF side = "left" THEN LANDMARKS.LEFT_ELBOW
                                                          ELSE LANDMARKS.RIGHT_ELBOW)))

UpperArmName(side) == IF side = "left" THEN "leftUpperArm" ELSE "rightUpperArm"

\* The angular distance between two orientations.
AngularDistance(a, b) == Abs(AngularPath(a, b))

\* C13: when the target rotation of a bone is the identity in a frame, the
\* orientation written to the bone is no further from the rest-pose
\* orientation than the orientation the bone had before the frame, from the
\* first frame after the model is activated on.
C13_Original ==
    [][(UpdateStep /\ updates'[Len(updates')].outcome = "returned")
          => LET u == updates'[Len(updates')]
                 smoothed == smoothLandmarks(this, Frame(u.pose, u.missing)).smoothed
             IN \A side \in {"left", "right"} :
                    LET boneName == UpperArmName(side)
                    IN (/\ Has(this.bones, boneName)
                        /\ Has(this.restPose, boneName)
                        /\ UpperArmTarget(smoothed, side) = 0)
                       => LET bone == this.bones[boneName]
                              rest == this.restPose[boneName].quaternion
                          IN AngularDistance(rest, this'.boneQuaternion[bone])
                                <= AngularDistance(rest, this.boneQuaternion[bone])]_vars

\* The loads that are with the loader before and after this step.
Stalled == {n \in 1..Len(loads) : loads[n].state = "pending" /\ loads'[n].state = "pending"}

\* C14: while the load of an id A stays with the loader, (1) the call that
\* started it left the active model, isLoaded and the working bones as they
\* were, (2) update runs on the active model instead of being skipped, (3) a
\* loadModel for another id waits only for a load of its own id, and (4)
\* the load of another id B that completes activates B.
C14_StalledLoadBlocksOnlyItself ==
    [][/\ \A id \in KnownIds :
            (CallMade(id) /\ LastCall.path = "starter")
                => /\ this'.model = this.model
                   /\ this'.isLoaded = this.isLoaded
                   /\ this'.currentModelId = this.currentModelId
                   /\ this'.bones = this.bones
       /\ \A n \in Stalled :
          /\ (UpdateStep /\ this.isLoaded /\ this.model # 0)
                => updates'[Len(updates')].outcome # "skipped"
          /\ \A id \in KnownIds :
                (CallMade(id) /\ id # loads[n].id /\ LastCall.path \in {"starter", "waiter"})
                    => LastCall.load # n
          /\ \A m \in 1..Len(loads) :
                (m # n /\ loads[m].state = "onLoad" /\ loads'[m].state = "fulfilled")
                    => /\ this'.currentModelId = loads[m].id
                       /\ this'.isLoaded
                       /\ this'.model = this'.modelCache[loads[m].id]]_vars

\* C14 witness: the load of one id is still with the loader, a call for
\* another id that was made later has returned with its id active, and an
\* update has run on that model.
C14_Witness ==
    \E n \in 1..Len(loads) : \E i \in 1..Len(calls) :
        /\ loads[n].state = "pending"
        /\ calls[i].id # loads[n].id
        /\ calls[i].load > n
        /\ calls[i].status = "returned"
        /\ this.currentModelId = calls[i].id
        /\ updates # <<>>
        /\ updates[Len(updates)].outcome = "returned"

\* C15: a loadModel call with an id that is not in AVAILABLE_MODELS returns
\* normally and changes nothing: the object with its caches, loadingPromises,
\* active model fields and visibility flags, the loads and the microtask
\* queue are as before the call.
C15_UnknownIdNoOp ==
    [][\A id \in RequestedIds \ KnownIds :
          CallMade(id) => /\ this' = this
                          /\ loads' = loads
                          /\ mq' = mq
                          /\ LastCall.path = "unknown"
                          /\ LastCall.status = "returned"]_vars

\* C15 witness: a call with an unknown id has returned while a model is
\* cached, active and visible and another load is in flight.
C15_Witness ==
    /\ \E i \in 1..Len(calls) : calls[i].path = "unknown" /\ calls[i].status = "returned"
    /\ calls[Len(calls)].path = "unknown"
    /\ VisibleRoots # {}
    /\ this.model # 0
    /\ DOMAIN this.loadingPromises # {}

\* The fields of the character that hold neither object transforms nor the
\* smoothing state of update.
Bookkeeping(t) ==
    [model |-> t.model, visible |-> t.visible, isLoaded |-> t.isLoaded,
     currentModelId |-> t.currentModelId, skeleton |-> t.skeleton, bones |-> t.bones,
     hasSkeleton |-> t.hasSkeleton, modelCache |-> t.modelCache,
     loadingPromises |-> t.loadingPromises, groupVisible |-> t.groupVisible,
     rootVisible |-> t.rootVisible]

\* The bone and node objects of the scene with the given serial.
ObjectsOf(t, serial) == {r \in DOMAIN t.boneQuaternion : r[1] = serial}

\* C16: an update call changes the orientation of objects of the active asset
\* only, and of the objects it changes each is a mapped bone; it changes no
\* position of any object, no rest-pose snapshot (neither the working table
\* nor a cached one) and, the group's position and yaw and the smoothing
\* state apart, no other field of the character.
C16_UpdateWritesActiveOrientationsOnly ==
    [][UpdateStep =>
          /\ \A r \in DOMAIN this.boneQuaternion :
                this'.boneQuaternion[r] # this.boneQuaternion[r]
                    => r \in ObjectsOf(this, this.model) /\ r \in Values(this.bones)
          /\ DOMAIN this'.boneQuaternion = DOMAIN this.boneQuaternion
          /\ this'.bonePosition = this.bonePosition
          /\ this'.restPose = this.restPose
          /\ this'.skeletonCache = this.skeletonCache
          /\ Bookkeeping(this') = Bookkeeping(this)]_vars

\* C16 witness: an update call has returned after writing bones of the
\* active asset (their orientation differs from the one loaded) and moving
\* the group, while another rigged asset is cached and not active.
C16_Witness ==
    /\ updates # <<>>
    /\ updates[Len(updates)].outcome = "returned"
    /\ this.groupPosition # 0
    /\ \E r \in ObjectsOf(this, this.model) :
          this.boneQuaternion[r] # RiggedScene[r[2]].quaternion
    /\ \E id \in DOMAIN this.skeletonCache :
          /\ id # this.currentModelId
          /\ DOMAIN this.skeletonCache[id].bones # {}

\* C17: once skeletonCache holds an entry for an id, the entry's bones table
\* and rest-pose snapshots are the same after every step: loadModel calls,
\* load completions (which rebuild the working tables and activate), update
\* and setVisible.
C17_SkeletonCacheEntryImmutable ==
    [][\A id \in DOMAIN this.skeletonCache :
          /\ Has(this'.skeletonCache, id)
          /\ this'.skeletonCache[id].bones = this.skeletonCache[id].bones
          /\ this'.skeletonCache[id].restPose = this.skeletonCache[id].restPose]_vars

\* C17 witness: the working tables were those of the cached entry of a
\* static asset (no bone) when a rigged asset was loaded, mapped and
\* activated, and an update has since written bones.
C17_Witness ==
    /\ \E id \in DOMAIN this.skeletonCache :
          /\ id # this.currentModelId
          /\ this.modelCache[id] < this.model
          /\ DOMAIN this.skeletonCache[id].bones = {}
    /\ this.tablesOf = this.currentModelId
    /\ DOMAIN this.bones # {}
    /\ DOMAIN this.previousBoneRotations # {}

\* The active asset has no mapped bone: update's guard (line 625) passes and
\* this.bones is empty.
ActiveUnmapped(t) == t.isLoaded /\ t.model # 0 /\ DOMAIN t.bones = {}

\* The frame has the four landmarks updatePosition derives its targets from.
RootLandmarksPresent(landmarks) ==
    \A i \in {LANDMARKS.LEFT_HIP, LANDMARKS.RIGHT_HIP,
              LANDMARKS.LEFT_SHOULDER, LANDMARKS.RIGHT_SHOULDER} : landmarks[i] # Absent

\* targetRotY of updatePosition (lines 664-666) for the landmarks it is given.
YawTargetOf(landmarks) ==
    LET shoulderDir == Direction(getPos(landmarks, LANDMARKS.LEFT_SHOULDER),
                                 getPos(landmarks, LANDMARKS.RIGHT_SHOULDER))
    IN IF shoulderDir = NaN THEN NaN ELSE IF shoulderDir < 0 THEN -PI ELSE 0

\* C18: when the active asset has no mapped bone, an update call with a frame
\* that has the hip and shoulder landmarks writes no bone (no orientation, no
\* smoothed value) and still moves the root: the call returns, the group's
\* position and yaw are numbers after it, and each is the smoothing step from
\* its old value toward the target of the call.
C18_Original ==
    [][(UpdateStep /\ ActiveUnmapped(this)
            /\ RootLandmarksPresent(Frame(updates'[Len(updates')].pose,
                                          updates'[Len(updates')].missing)))
          => /\ this'.boneQuaternion = this.boneQuaternion
             /\ this'.previousBoneRotations = this.previousBoneRotations
             /\ updates'[Len(updates')].outcome = "returned"
             /\ this'.groupPosition # NaN
             /\ this'.groupRotationY # NaN
             /\ this'.groupPosition = this.groupPosition
                   + ((this'.targetPosition - this.groupPosition) \div SmoothingInverse)
             /\ this'.groupRotationY = SmoothYaw(this.previousRotation,
                                                 YawTargetOf(this'.previousLandmarks))]_vars

\* The slot (a set of at most one canonical name) that mapBone fills for the
\* i-th object of the scene on a character that has mapped nothing yet.
SlotAlone(nodes, i) ==
    DOMAIN mapBone(Constructed, BoneOf([serial |-> 1, nodes |-> nodes], i)).bones

\* The same for the skeleton-list loop of findSkeleton.
DrivenSlotAlone(nodes, i) ==
    DOMAIN DrivenMapSkeletonBones(SkeletonDrivenConstructed,
                                  [serial |-> 1, nodes |-> nodes], <<i>>, 1).bones

\* The objects passed to the mappers so far.
Encountered == {EncounterOrder(gltfScene, cursor)[k] :
                    k \in 1..Len(EncounterOrder(gltfScene, cursor))}

\* C19: the canonical name a raw bone name resolves to depends on the name
\* alone.  In every state of a traversal, for both mappers and for every
\* order of the bones in the hierarchy and in the skeleton list: a slot holds
\* only a bone that resolves to that slot when it is mapped alone, and every
\* bone encountered so far finds the slot it resolves to alone filled (no
\* match when alone, nothing filled for it).
C19_ResolutionDependsOnNameOnly ==
    /\ \A standard \in DOMAIN this.bones :
          standard \in SlotAlone(gltfScene, this.bones[standard][2])
    /\ \A i \in Encountered : SlotAlone(gltfScene, i) \subseteq DOMAIN this.bones
    /\ \A standard \in DOMAIN driven.bones :
          standard \in DrivenSlotAlone(gltfScene, driven.bones[standard][2])
    /\ \A i \in Encountered : DrivenSlotAlone(gltfScene, i) \subseteq DOMAIN driven.bones

\* C19 witness: a traversal has ended on a scene in which two bones carry the
\* same raw name behind a bone of another slot, the skeleton lists the bones
\* in the opposite order, and both mappers filled slots.
C19_Witness ==
    /\ cursor = Len(gltfScene)
    /\ cursor > 0
    /\ gltfScene[1].isSkinnedMesh
    /\ gltfScene[1].skeleton.bones[1] > gltfScene[1].skeleton.bones[2]
    /\ \E i, j \in 2..Len(gltfScene) :
          /\ 2 < i /\ i < j
          /\ gltfScene[i].name = gltfScene[j].name
          /\ gltfScene[2].name # gltfScene[i].name
    /\ Cardinality(DOMAIN this.bones) = 2
    /\ Cardinality(DOMAIN driven.bones) = 2

\* The raw names of the claim.
MixamoLeftArm == <<"m","i","x","a","m","o","r","i","g",":","L","e","f","t","A","r","m">>
MixamoLeftForeArm ==
    <<"m","i","x","a","m","o","r","i","g",":","L","e","f","t","F","o","r","e","A","r","m">>

\* The first object with the given raw name that a traversal of the scene
\* passes to mapBone.
BoneNamed(nodes, rawName) ==
    LET order == EncounterOrder(nodes, Len(nodes))
        hits == {k \in 1..Len(order) : nodes[order[k]].name = rawName}
    IN order[CHOOSE k \in hits : \A j \in hits : k <= j]

\* The bones of the scene are named "mixamorig:LeftArm",
\* "mixamorig:LeftForeArm" and "Hips", in any order.
MixamoArmScene(nodes) ==
    {nodes[i].name : i \in {k \in 1..Len(nodes) : nodes[k].isBone}}
        = {MixamoLeftArm, MixamoLeftForeArm, <<"H","i","p","s">>}

\* C20: "mixamorig:LeftArm" resolves to leftUpperArm and
\* "mixamorig:LeftForeArm" to leftForeArm, and after findAndMapBones has
\* traversed a scene whose bones are named "mixamorig:LeftArm",
\* "mixamorig:LeftForeArm" and "Hips" the leftUpperArm and leftForeArm slots
\* hold those two bones, with their rest poses.
C20_MixamoArmsResolve ==
    /\ StandardNameOf(MixamoLeftArm) = "leftUpperArm"
    /\ StandardNameOf(MixamoLeftForeArm) = "leftForeArm"
    /\ (cursor = Len(gltfScene) /\ MixamoArmScene(gltfScene)) =>
          LET upper == BoneNamed(gltfScene, MixamoLeftArm)
              fore == BoneNamed(gltfScene, MixamoLeftForeArm)
          IN /\ Has(this.bones, "leftUpperArm") /\ this.bones.leftUpperArm = <<1, upper>>
             /\ Has(this.bones, "leftForeArm") /\ this.bones.leftForeArm = <<1, fore>>
             /\ this.restPose.leftUpperArm.quaternion = gltfScene[upper].quaternion
             /\ this.restPose.leftForeArm.quaternion = gltfScene[fore].quaternion

\* C20 witness: the traversal of such a scene has ended, with the forearm
\* bone ahead of the upper arm bone in the hierarchy.
C20_Witness ==
    /\ cursor = Len(gltfScene)
    /\ MixamoArmScene(gltfScene)
    /\ BoneNamed(gltfScene, MixamoLeftForeArm) < BoneNamed(gltfScene, MixamoLeftArm)
    /\ this.bones.leftUpperArm = <<1, BoneNamed(gltfScene, MixamoLeftArm)>>

\* The canonical bone names.
CanonicalBoneNames ==
    {"hips", "spine", "spine1", "spine2", "chest", "neck", "head",
     "leftShoulder", "leftUpperArm", "leftForeArm", "leftHand",
     "rightShoulder", "rightUpperArm", "rightForeArm", "rightHand",
     "leftUpLeg", "leftLeg", "leftFoot", "rightUpLeg", "rightLeg", "rightFoot"}

\* The key sets of the tables of canonical names the character holds: the
\* working tables and those of every skeleton cache entry.
NameTableKeys(t) ==
    {DOMAIN t.bones, DOMAIN t.restPose}
        \cup {DOMAIN t.skeletonCache[id].bones : id \in DOMAIN t.skeletonCache}
        \cup {DOMAIN t.skeletonCache[id].restPose : id \in DOMAIN t.skeletonCache}

\* C21: there are 21 canonical names; every canonical name of the alias
\* table and every name mapBone resolves a bone name of a scene to is one of
\* them, and so is every key of every bone table and rest-pose table,
\* working or cached, built by mapping a loaded scene or by
\* _createProceduralModel.
C21_KeysAreCanonical ==
    /\ Cardinality(CanonicalBoneNames) = 21
    /\ \A i \in 1..Len(BONE_ALIASES) : BONE_ALIASES[i][2] \in CanonicalBoneNames
    /\ \A rawName \in SceneBoneNames \cup MapNames :
          StandardNameOf(rawName) \in CanonicalBoneNames \cup {NULL}
    /\ \A keys \in NameTableKeys(this) : keys \subseteq CanonicalBoneNames

\* C21 witness: a mapped loaded scene and a procedural rig are both cached
\* with bones, and the working tables are those of one of them.
C21_Witness ==
    /\ \E id \in DOMAIN this.skeletonCache :
          this.modelCache[id] > 0 /\ DOMAIN this.skeletonCache[id].bones # {}
    /\ \E id \in DOMAIN this.skeletonCache :
          /\ this.modelCache[id] < 0
          /\ Cardinality(DOMAIN this.skeletonCache[id].restPose) = Len(ProceduralBones)
    /\ DOMAIN this.bones # {}

\* C22: in every state between two steps (where an update or a loadModel
\* call can run), if isLoaded then model is modelCache[currentModelId] and
\* bones, restPose and hasSkeleton are those of skeletonCache[currentModelId]:
\* the working tables that lines 241-244 reset and rebuild are never seen
\* without the activation that follows them.
C22_ActiveFieldsConsistent ==
    this.isLoaded =>
        /\ Has(this.modelCache, this.currentModelId)
        /\ this.model = this.modelCache[this.currentModelId]
        /\ Has(this.skeletonCache, this.currentModelId)
        /\ this.bones = this.skeletonCache[this.currentModelId].bones
        /\ this.restPose = this.skeletonCache[this.currentModelId].restPose
        /\ this.hasSkeleton = this.skeletonCache[this.currentModelId].hasSkeleton

\* C22 witness: a second asset was loaded and activated over a first one
\* whose tables differ from its own, and an update has run since.
C22_Witness ==
    /\ this.isLoaded
    /\ \E id \in DOMAIN this.skeletonCache :
          /\ id # this.currentModelId
          /\ this.modelCache[id] < this.model
          /\ DOMAIN this.skeletonCache[id].bones # DOMAIN this.bones
    /\ updates # <<>>
    /\ updates[Len(updates)].outcome = "returned"
    /\ this.groupPosition # 0

\* The next microtask is the resumption of _loadModelAsync for a load the
\* loader resolved.
LoadSucceeds(n) ==
    /\ mq # <<>>
    /\ Head(mq).kind = "asyncBody"
    /\ Head(mq).n = n
    /\ loads[n].state = "onLoad"

\* C23: when a load succeeds, its id becomes the active model whatever was
\* activated or requested while it was in flight, and the continuations of
\* the calls that awaited a load (which run before any other task) leave
\* the active model as it is; so once every load has settled the active
\* model is the one whose load completed last.
C23_LastCompletedLoadIsActive ==
    [][/\ \A n \in 1..Len(loads) :
             LoadSucceeds(n) => /\ this'.currentModelId = loads[n].id
                                /\ this'.model = n
                                /\ this'.isLoaded
       /\ (mq # <<>> /\ Head(mq).kind \in {"starter", "waiter"})
             => /\ this'.currentModelId = this.currentModelId
                /\ this'.model = this.model]_vars

\* C23 witness: two ids were requested one after the other, the load of the
\* second completed first (it was activated while the first was in flight),
\* then the load of the first; everything has settled and the active model
\* is the first id, not the one requested last.
C23_Witness ==
    /\ mq = <<>>
    /\ Len(loads) = 2 /\ Len(calls) = 2
    /\ loads[1].state = "fulfilled" /\ loads[2].state = "fulfilled"
    /\ \A i \in 1..Len(calls) : calls[i].status = "returned"
    /\ calls[2].id = loads[2].id
    /\ calls[2].active = loads[2].id
    /\ loads[1].id # loads[2].id
    /\ this.currentModelId = loads[1].id

\* The fields that say which model is active and how it is driven.
ActiveFields(t) ==
    [currentModelId |-> t.currentModelId, model |-> t.model, bones |-> t.bones,
     restPose |-> t.restPose, hasSkeleton |-> t.hasSkeleton, isLoaded |-> t.isLoaded]

\* The next microtask belongs to a load the loader rejected: the resumption
\* of _loadModelAsync in its catch block, or of a call that awaited it.
FailureStep ==
    /\ mq # <<>>
    /\ \/ Head(mq).kind = "asyncBody" /\ loads[Head(mq).n].state = "onError"
       \/ /\ Head(mq).kind \in {"starter", "waiter"}
          /\ loads[calls[Head(mq).n].load].state = "rejected"

\* C24: no step of a loadModel call whose load fails changes the active
\* model: the call up to its await, the rejection in _loadModelAsync and the
\* resumption of the awaiting calls leave currentModelId, model, bones,
\* restPose, hasSkeleton and isLoaded (and the caches) as they were, the
\* awaiting calls end by throwing, and an update after a failed load still
\* runs on the model that was active.
C24_FailedLoadKeepsActiveModel ==
    [][/\ \A id \in KnownIds :
             (CallMade(id) /\ LastCall.path \in {"starter", "waiter"})
                 => ActiveFields(this') = ActiveFields(this)
       /\ FailureStep
             => /\ ActiveFields(this') = ActiveFields(this)
                /\ this'.modelCache = this.modelCache
                /\ this'.skeletonCache = this.skeletonCache
                /\ Head(mq).kind \in {"starter", "waiter"}
                      => calls'[Head(mq).n].status = "threw"
       /\ (UpdateStep /\ this.isLoaded /\ this.model # 0
                 /\ \E n \in 1..Len(loads) : loads[n].state = "rejected")
             => /\ updates'[Len(updates')].outcome # "skipped"
                /\ ActiveFields(this') = ActiveFields(this)]_vars

\* C24 witness: with a rigged model active, the load of another id failed
\* and its call threw; the first model is still the active one and update
\* has written its bones.
C24_Witness ==
    /\ mq = <<>>
    /\ \E i \in 1..Len(calls) :
          /\ calls[i].status = "threw"
          /\ calls[i].id # this.currentModelId
          /\ i > 1
    /\ this.isLoaded
    /\ this.model # 0
    /\ ~Has(this.modelCache, calls[Len(calls)].id)
    /\ updates # <<>>
    /\ updates[Len(updates)].outcome = "returned"
    /\ \E r \in ObjectsOf(this, this.model) :
          this.boneQuaternion[r] # RiggedScene[r[2]].quaternion

\* C25: in every state in which the character's visible flag is false no
\* model root is visible: neither a load that completes nor the activation
\* of a cached model shows a model while the character is hidden.
C25_HiddenCharacterShowsNoModel ==
    ~this.visible => VisibleRoots = {}

\* C25 witness: the character was hidden by setVisible(false); since the
\* first call two models were loaded and cached and a cached model was
\* activated by a call, and the character is hidden with a model active.
C25_Witness ==
    /\ ~this.visible
    /\ ~this.groupVisible
    /\ mq = <<>>
    /\ Cardinality(DOMAIN this.modelCache) = 2
    /\ this.isLoaded
    /\ calls[Len(calls)].path = "cached"
    /\ calls[Len(calls)].active = this.currentModelId

\* The stages of the frame pipeline in the order the claim gives them.
StageRank == [mapping |-> 1, smoothing |-> 2, solving |-> 3, write |-> 4]

\* The stages one bone goes through in an update method: its target
\* orientation is computed and applyBoneRotation writes it, when the bone
\* is mapped.
RECURSIVE BoneStages(_, _, _)
BoneStages(t, boneNames, k) ==
    IF k > Len(boneNames) THEN <<>>
    ELSE (IF Has(t.bones, boneNames[k]) THEN <<"solving", "write">> ELSE <<>>)
         \o BoneStages(t, boneNames, k + 1)

\* The stages of an update method, in the order of its statements: the
\* getPos calls, the early return when one of the landmarks in required is
\* missing, then the bones in turn (those in optional only when their
\* landmark is there).
MethodStages(t, landmarks, required, boneNames, optional, optionalBone) ==
    <<"mapping">>
        \o (IF \E i \in required : getPos(landmarks, i) = Absent THEN <<>>
            ELSE BoneStages(t, boneNames, 1)
                 \o (IF \E i \in optional : getPos(landmarks, i) = Absent THEN <<>>
                     ELSE BoneStages(t, optionalBone, 1)))

\* The stages of updatePosition: getPos, then the target and the group write.
updatePositionStages(landmarks) ==
    <<"mapping">>
        \o (IF RootLandmarksPresent(landmarks) THEN <<"solving", "write">> ELSE <<>>)

\* The stages of updateSkeleton (lines 682-696).
updateSkeletonStages(t, landmarks) ==
    MethodStages(t, landmarks, {23, 24, 11, 12}, <<"spine", "spine1", "spine2", "chest">>, {}, <<>>)
    \o MethodStages(t, landmarks, {0, 11, 12}, <<"head", "neck">>, {}, <<>>)
    \o MethodStages(t, landmarks, {11, 13, 15}, <<"leftUpperArm", "leftForeArm">>, {19}, <<"leftHand">>)
    \o MethodStages(t, landmarks, {12, 14, 16}, <<"rightUpperArm", "rightForeArm">>, {20}, <<"rightHand">>)
    \o MethodStages(t, landmarks, {23, 25, 27}, <<"leftUpLeg", "leftLeg">>, {31}, <<"leftFoot">>)
    \o MethodStages(t, landmarks, {24, 26, 28}, <<"rightUpLeg", "rightLeg">>, {32}, <<"rightFoot">>)

\* The stages of one update call (lines 624-636), in the order they run.
updateStages(t, landmarks) ==
    IF ~t.isLoaded \/ t.model = 0 THEN <<>>
    ELSE LET sm == smoothLandmarks(t, landmarks)
         IN <<"smoothing">>
            \o (IF sm.threw THEN <<>>
                ELSE updatePositionStages(sm.smoothed)
                     \o (IF sm.this.hasSkeleton /\ DOMAIN sm.this.bones # {}
                         THEN updateSkeletonStages(sm.this, sm.smoothed) ELSE <<>>))

\* C26: the stages of every update call run as a strict pipeline (no stage
\* runs after a later one of the claim's order: coordinate mapping,
\* smoothing, orientation solving, bone writes), and the call is one step:
\* it starts with no continuation pending and neither a load completion nor
\* another frame happens inside it.
C26_Original ==
    [][UpdateStep =>
          LET last == updates'[Len(updates')]
              stages == updateStages(this, Frame(last.pose, last.missing))
          IN /\ \A i, j \in 1..Len(stages) :
                   i < j => StageRank[stages[i]] <= StageRank[stages[j]]
             /\ mq = <<>> /\ mq' = <<>>
             /\ loads' = loads
             /\ Len(updates') = Len(updates) + 1]_vars

\* ------------------------------------------------ resolving single names
\* The keys of BONE_ALIASES.
AliasKeys == {BONE_ALIASES[i][1] : i \in 1..Len(BONE_ALIASES)}

\* Bone names of rigs that carry the side as a word: limb and finger bones
\* of either side.
SideNames ==
    {<<"R","i","g","h","t","C","a","l","f">>,
     <<"R","i","g","h","t","_","U","p","p","e","r","_","L","e","g">>,
     <<"R","i","g","h","t","H","a","n","d","L","i","t","t","l","e","1">>,
     <<"R","i","g","h","t","S","h","o","u","l","d","e","r">>,
     <<"L","e","f","t","C","a","l","f">>,
     <<"L","e","f","t","_","U","p","p","e","r","_","L","e","g">>,
     <<"L","e","f","t","H","a","n","d","R","i","n","g","1">>,
     <<"L","e","f","t","_","U","p","p","e","r","_","S","h","o","u","l","d","e","r">>}

\* A scene with one bone, named by an alias key or by a side name, reached
\* as a plain bone node or through the skeleton of a skinned mesh.
NameScenes ==
    {MapScene(<<name>>, meshKind) :
        name \in AliasKeys \cup SideNames, meshKind \in {"none", "forward"}}

NameInit ==
    /\ this = Constructed
    /\ mq = <<>>
    /\ loads = <<>>
    /\ calls = <<>>
    /\ updates = <<>>
    /\ driven = SkeletonDrivenConstructed
    /\ gltfScene \in NameScenes
    /\ cursor = 0

NameSpec == NameInit /\ [][MapNext]_vars

\* The name of the only bone of the scene (its last node).
OnlyBoneName == gltfScene[Len(gltfScene)].name

\* The hierarchy has been traversed to its end.
Traversed == cursor = Len(gltfScene)

\* C27: when the only bone of a scene is named by a key of the alias table,
\* the traversal maps it to the canonical name the table assigns to that
\* key (no alias listed earlier captures it).
C27_Original ==
    \A i \in 1..Len(BONE_ALIASES) :
        (Traversed /\ OnlyBoneName = BONE_ALIASES[i][1])
            => DOMAIN this.bones = {BONE_ALIASES[i][2]}

\* The canonical names of the bones of the left and of the right side.
LeftBoneNames ==
    {"leftShoulder", "leftUpperArm", "leftForeArm", "leftHand",
     "leftUpLeg", "leftLeg", "leftFoot"}
RightBoneNames ==
    {"rightShoulder", "rightUpperArm", "rightForeArm", "rightHand",
     "rightUpLeg", "rightLeg", "rightFoot"}

\* The normalized name of the only bone says right and not left / left and
\* not right.
SaysRightOnly ==
    LET name == NormalizeName(OnlyBoneName)
    IN includes(name, <<"r","i","g","h","t">>) /\ ~includes(name, <<"l","e","f","t">>)
SaysLeftOnly ==
    LET name == NormalizeName(OnlyBoneName)
    IN includes(name, <<"l","e","f","t">>) /\ ~includes(name, <<"r","i","g","h","t">>)

\* C28: a bone whose normalized name contains "right" and not "left" is
\* never mapped to a left-side canonical name, and one whose name contains
\* "left" and not "right" never to a right-side canonical name, by mapBone
\* or by getStandardBoneName.
C28_Original ==
    /\ SaysRightOnly =>
          /\ DOMAIN this.bones \cap LeftBoneNames = {}
          /\ DOMAIN driven.bones \cap LeftBoneNames = {}
    /\ SaysLeftOnly =>
          /\ DOMAIN this.bones \cap RightBoneNames = {}
          /\ DOMAIN driven.bones \cap RightBoneNames = {}

\* C29: in every skeleton cache entry the bone table and the rest-pose table
\* have the same keys, and no bone object is stored under two different
\* canonical names.
C29_CacheEntryTablesAgree ==
    \A id \in DOMAIN this.skeletonCache :
        LET entry == this.skeletonCache[id]
        IN /\ DOMAIN entry.bones = DOMAIN entry.restPose
           /\ \A a, b \in DOMAIN entry.bones :
                 entry.bones[a] = entry.bones[b] => a = b

\* C29 witness: the cache holds the entry of a loaded scene whose bones were
\* each passed to mapBone twice (through the skeleton of the skinned mesh and
\* as a node) and the entry of a procedural rig, both with several bones.
C29_Witness ==
    /\ \E id \in DOMAIN this.skeletonCache :
          /\ this.modelCache[id] > 0
          /\ Cardinality(DOMAIN this.skeletonCache[id].bones) > 1
    /\ \E id \in DOMAIN this.skeletonCache :
          /\ this.modelCache[id] < 0
          /\ Cardinality(DOMAIN this.skeletonCache[id].bones) = Len(ProceduralBones)

\* A coordinate that is a number (not the x of {} and not a null entry).
Numeric(x) == x # NaN /\ x # Absent

\* s lies between a and b (either order).
Between(a, s, b) == (a <= s /\ s <= b) \/ (b <= s /\ s <= a)

\* The update call of the step reaches smoothLandmarks (line 628).
SmoothingStep == UpdateStep /\ this.isLoaded /\ this.model # 0

\* C30: in every update call that reaches the pre-smoothing, on the first
\* frame the raw landmarks are returned unchanged and stored as the previous
\* ones; on every later frame each coordinate stored as the new previous is
\* a number, equals previous + (raw - previous) * smoothing, and lies between
\* the previous and the raw coordinate.
C30_Original ==
    [][SmoothingStep =>
          LET last == updates'[Len(updates')]
              raw == Frame(last.pose, last.missing)
              previous == this.previousLandmarks
              stored == this'.previousLandmarks
          IN IF ~this.hasPreviousLandmarks
             THEN /\ smoothLandmarks(this, raw).smoothed = raw
                  /\ \A i \in LandmarkIndices : Numeric(raw[i]) => stored[i] = raw[i]
             ELSE \A i \in LandmarkIndices :
                     /\ Numeric(stored[i])
                     /\ stored[i] = previous[i] + ((raw[i] - previous[i]) \div SmoothingInverse)
                     /\ Between(previous[i], stored[i], raw[i])]_vars

====
